---- MODULE Spec2Model ----
(***************************************************************************)
(* Model of the radio capture service's Process Supervisor                 *)
(* (app/services/stream_manager.py, class StreamManager) together with its *)
(* callers in app/api/main.py.                                             *)
(*                                                                         *)
(* The manager runs on one asyncio event loop: a coroutine keeps the CPU   *)
(* until it reaches an await, so the code between two awaits is one run of *)
(* steps that no other coroutine and no event-loop callback (such as the   *)
(* one that sets a process's returncode) can interleave with.  A pass      *)
(* reads the rows once, at its start, and afterwards touches a row only to *)
(* write its status fields, so a write of the HTTP layer that lands inside *)
(* such a run is modelled as landing at the await before or after it.      *)
(***************************************************************************)
EXTENDS Integers, Sequences, FiniteSets, TLC

\* ------------------------------------------------------------------ bounds
NumStations == 2

\* files that can appear under the output tree
NumFiles == 3
\* rows of table recording that can hold the same path
MaxRows == 2
\* files of the output tree that two watcher processes scan together
NumSharedFiles == 2
\* rows of table recording the segmenter is given
MaxRecs == 2
\* rows of table recording two requests at the same time are given
MaxSharedRecs == 1
\* recordings of one station and day the grouping loop is given
MaxRun == 3
\* error events counted for one exit
MaxEvents == 2

\* ------------------------------------------------------- program constants
\* asyncio.wait_for(proc.wait(), timeout=5.0), counted in seconds
GracePeriod == 5
\* "if datetime.now().timestamp() - stats.st_mtime < 10", in seconds
StabilityWindow == 10
\* a duration ffprobe reports for a segment: segment_time's default
ProbedSeconds == 3600
\* gap_threshold: int = 5
GapThreshold == 5
\* min_duration: int = 60
MinDuration == 60
\* seconds from time.min to time.max, rounded up: one day
DayLength == 86400

Stations == 1..NumStations
\* slots for process handles: every station can have one tracked process and
\* one process that the manager dropped from its table while it still ran
Procs == 1..(2 * NumStations)
Loops == {"L1", "L2"}
Files == 1..NumFiles
\* the processes that start a RecordingWatcher: the API server (main.py) and
\* the standalone watcher (run_watcher.py)
Watchers == {"api", "standalone"}
\* requests for a rebuild in flight at the same time
Callers == {"r1", "r2"}

VARIABLES
    \* ---- the store: table Stream (one row per station id)
    exists,          \* the row is present
    enabled,         \* Stream.enabled
    current_status,  \* Stream.current_status
    last_error,      \* Stream.last_error: "none" (NULL), "invalid" (the
                     \* builder's ValueError), "launch", "exited"
    last_up,         \* Stream.last_up: 0 (NULL), or the instant a capture
                     \* process was launched, named by that process
    configOk,        \* Stream.url and Stream.name are both non-empty
    \* ---- the store: table Event
    events,          \* per station: the rows with level "error" added since
                     \* the last "Stream started" row of that station
    \* ---- operating-system processes launched by the manager
    procState,       \* "free" (no process: never launched, or ended and
                     \* no longer referenced), "alive" (returncode None),
                     \* "exited" (returncode set)
    procStation,     \* the station a process was launched for (0: none)
    sigterm,         \* SIGTERM: "none" (not sent), "obeyed" (delivered, the
                     \* process ends because of it), "ignored" (delivered,
                     \* the process goes on)
    \* ---- StreamManager fields
    processes,       \* self.processes: station id -> process id, 0 = no key
    running,         \* self.running
    lockHolder,      \* self._lock: "free" or the task that holds it
    waiters,         \* self._lock's FIFO queue of waiting tasks
    \* ---- monitor_loop / reconcile_streams, per loop task
    pc,              \* position of each monitor loop
    snap,            \* rows read by the pass at line 91: "absent","en","dis"
    idx,             \* position of the pass in its for-loop over streams
    waited,          \* seconds of wait_for's timeout known to have elapsed
                     \* in stop_stream: 0, or GracePeriod once it has run out
    \* ---- the output volume and the calendar
    dirs,            \* per station: which date directories exist, as days
                     \* from the current day (0 today, 1 tomorrow)
    iterated,        \* a monitor-loop iteration has ended since the last
                     \* change of day
    \* ---- StreamManager.stop
    spc,             \* position of the stop task
    sweepTodo,       \* entries of self.processes the sweep has not visited
    sweepCur,        \* the entry whose proc.wait() the sweep awaits
    \* ---- history (not program state)
    passLog,         \* what the pass in flight did for each station
    matched,         \* tracked state matched desired state at pass start
    lateStart,       \* per loop: its call of reconcile_streams in flight
                     \* was made after stop() had been called
    \* ---- the output tree /data/recordings/<name>/...
    onDisk,          \* per file: it exists
    age,             \* per file: seconds since st_mtime, as far as the
                     \* comparison with the window can tell them apart
    \* ---- table recording
    recording,       \* per path: the rows with that path, oldest first
    \* ---- RecordingWatcher, per process
    wpc,             \* "off", "sleep", "caught", "walk", "probe", "insert"
    wstreams,        \* stations of the rows scan_files found enabled
    wnext,           \* the next row of "for stream in streams"
    wfiles,          \* files of the walk in progress not yet examined
    wcur,            \* the new, stable file being processed (0: none)
    wdur,            \* the local variable duration of scan_files
    \* ---- history (not program state)
    wlog,            \* per process and file: what the scan in flight did
    wprobe,          \* how the probe of the file being processed ended
    \* ---- the store as the segmenter sees it
    analysed,        \* rows of table recording with the fields the external
                     \* analysis step has set, in order of start_ts
    speech_blocks,   \* rows of table speech_blocks, committed, oldest first
    \* ---- build_speech_blocks
    min_duration,    \* the argument min_duration of the calls
    \* ---- build_speech_blocks, per request
    rpc,             \* "idle", "called", "deleted", "computed", "committed",
                     \* "done", "failed"
    rstation,        \* station_id
    rday,            \* target_date, as a day number
    rpending,        \* blocks: added to the session, not yet committed
    \* ---- history (not program state)
    rbefore,         \* the blocks of (station, date) stored when the call
                     \* was made
    \* ---- FfmpegBuilder
    stream_config,   \* the dict the builder is constructed from
    built,           \* what build_command gave: not called yet, the argument
                     \* list, or the error raised
    \* ---- the output naming, for the station of stream_config
    now,             \* the wall clock, to the second
    made,            \* paths given to os.makedirs by ensure_directories
    segment,         \* the file the capture process has opened: its path
                     \* and the time its name was formed from
    parsed           \* what scan_files made of that file's name

dbVars == <<exists, enabled, current_status, last_error, last_up,
           configOk, events>>
procVars == <<procState, procStation, sigterm>>
lockVars == <<lockHolder, waiters>>
passVars == <<snap, idx, waited>>
dirVars == <<dirs, iterated>>
stopVars == <<spc, sweepTodo, sweepCur>>
histVars == <<passLog, matched, lateStart>>
diskVars == <<onDisk, age>>
scanVars == <<wpc, wstreams, wnext, wfiles, wcur, wdur, wlog, wprobe>>
watchVars == <<diskVars, recording, scanVars>>
segVars == <<analysed, speech_blocks, min_duration, rpc, rstation, rday,
            rpending, rbefore>>
nameVars == <<now, made, segment, parsed>>
bldVars == <<stream_config, built, nameVars>>
compVars == <<watchVars, segVars, bldVars>>
vars == <<dbVars, procVars, processes, running, lockVars, pc, passVars,
          dirVars, stopVars, histVars, compVars>>

\* ---------------------------------------------------------------- helpers
Tracked(s) == processes[s] # 0

\* proc.returncode is None
ReturncodeNone(p) == procState[p] = "alive"

\* the process ids self.processes refers to
Referenced == {processes[s] : s \in Stations} \ {0}

\* some coroutine of the manager is between two awaits
OnCpu == (\E l \in Loops : pc[l] \in {"iter", "caught"}) \/ spc = "sweep"
CpuFree == ~OnCpu

InPass(l) == pc[l] \in {"iter", "awaitSpawn", "awaitStop"}
InSweep == spc \in {"sweep", "sweepWait"}

\* the for-loop of the pass has visited every row
PassDone(l) == pc[l] = "iter" /\ idx \notin Stations

\* variant: writing the status of a station also disables it
WriteStatusDisables(s, st, err) ==
    /\ current_status' = IF exists[s] THEN [current_status EXCEPT ![s] = st]
                         ELSE current_status
    /\ last_error' = IF exists[s] THEN [last_error EXCEPT ![s] = err]
                     ELSE last_error
    /\ enabled' = [enabled EXCEPT ![s] = FALSE]
    /\ UNCHANGED <<exists, last_up, configOk, events>>

\* session.add(stream); session.commit() of the status fields: a row that
\* has been deleted meanwhile has nothing to update
WriteStatus(s, st, err) ==
    /\ current_status' = IF exists[s] THEN [current_status EXCEPT ![s] = st]
                         ELSE current_status
    /\ last_error' = IF exists[s] THEN [last_error EXCEPT ![s] = err]
                     ELSE last_error
    /\ UNCHANGED <<exists, enabled, last_up, configOk, events>>

\* variant: a spawn leaves last_error as it was
WriteRunningKeepsError(s, p) ==
    /\ current_status' = IF exists[s]
                         THEN [current_status EXCEPT ![s] = "running"]
                         ELSE current_status
    /\ last_up' = IF exists[s] THEN [last_up EXCEPT ![s] = p] ELSE last_up
    /\ events' = [events EXCEPT ![s] = 0]
    /\ UNCHANGED <<exists, enabled, last_error, configOk>>

\* start_stream lines 130-139: status, last_up = utcnow() and last_error of
\* the row, committed together, once process p has been launched; then the
\* event "Stream started"
WriteRunning(s, p) ==
    /\ current_status' = IF exists[s]
                         THEN [current_status EXCEPT ![s] = "running"]
                         ELSE current_status
    /\ last_up' = IF exists[s] THEN [last_up EXCEPT ![s] = p] ELSE last_up
    /\ last_error' = IF exists[s] THEN [last_error EXCEPT ![s] = "none"]
                     ELSE last_error
    /\ events' = [events EXCEPT ![s] = 0]
    /\ UNCHANGED <<exists, enabled, configOk>>

\* session.add(Event(level="error", ...)); session.commit(): one more row
ErrorEventAdded(n) == IF n < MaxEvents THEN n + 1 ELSE n

\* handle_failure lines 175-182: status and last_error of the row, then the
\* event "Stream process died"
WriteFailure(s) ==
    /\ current_status' = IF exists[s]
                         THEN [current_status EXCEPT ![s] = "error"]
                         ELSE current_status
    /\ last_error' = IF exists[s] THEN [last_error EXCEPT ![s] = "exited"]
                     ELSE last_error
    /\ events' = [events EXCEPT ![s] = ErrorEventAdded(@)]
    /\ UNCHANGED <<exists, enabled, last_up, configOk>>

\* stop_stream's own session, "if stream:": only current_status is written
WriteStopped(s) ==
    /\ current_status' = IF exists[s]
                         THEN [current_status EXCEPT ![s] = "stopped"]
                         ELSE current_status
    /\ UNCHANGED <<exists, enabled, last_error, last_up, configOk, events>>

\* The handles in gone leave self.processes, and the processes in killed
\* receive SIGKILL.  A process that has ended and is no longer referenced
\* leaves the model; one that still runs stays, unreferenced.
DropHandles(gone, killed) ==
    LET ended == {p \in gone \cup killed :
                     p \in killed \/ procState[p] # "alive"}
    IN  /\ procState' = [p \in Procs |->
                            IF p \in ended THEN "free" ELSE procState[p]]
        /\ procStation' = [p \in Procs |->
                            IF p \in ended THEN 0 ELSE procStation[p]]
        /\ sigterm' = [p \in Procs |->
                            IF p \in ended THEN "none" ELSE sigterm[p]]

\* async with self._lock: leaving the block wakes the first waiter
Release ==
    IF waiters = <<>>
    THEN lockHolder' = "free" /\ waiters' = waiters
    ELSE lockHolder' = Head(waiters) /\ waiters' = Tail(waiters)

\* variant: the lock is taken without looking at its holder
LockIgnored == TRUE

\* asyncio.Lock.acquire returns at once only when the lock is not held
LockAvailable == lockHolder = "free" /\ waiters = <<>>

\* variant: "while True:", the loop never tests self.running
LoopForever == TRUE

\* while self.running:
LoopContinues == running

\* for days_delta in [0, 1]
Days == {0, 1}

\* ensure_directories: for every row with enabled == True, as the store holds
\* it now, os.makedirs(..., exist_ok=True) for today and tomorrow
EnsureDirectories ==
    dirs' = [s \in Stations |->
                IF exists[s] /\ enabled[s] THEN Days ELSE dirs[s]]

\* variant: the builder accepts an empty url or name
ValidatesAll(s) == TRUE

\* build_command: "if not self.url or not self.name: raise ValueError"
Validates(s) == configOk[s]

\* --------------------------------------------------------------------- Init
\* StreamManager.__init__ and the rows of table stream
InitManager ==
    /\ exists = [s \in Stations |-> TRUE]
    /\ enabled \in [Stations -> BOOLEAN]
    /\ current_status = [s \in Stations |-> "stopped"]
    /\ last_error = [s \in Stations |-> "none"]
    /\ last_up = [s \in Stations |-> 0]
    /\ events = [s \in Stations |-> 0]
    /\ configOk \in [Stations -> BOOLEAN]
    /\ procState = [p \in Procs |-> "free"]
    /\ procStation = [p \in Procs |-> 0]
    /\ sigterm = [p \in Procs |-> "none"]
    /\ processes = [s \in Stations |-> 0]
    /\ running = FALSE
    /\ lockHolder = "free"
    /\ waiters = <<>>
    /\ pc = [l \in Loops |-> "unstarted"]
    /\ snap = [s \in Stations |-> "absent"]
    /\ idx = 1
    /\ waited = 0
    /\ dirs = [s \in Stations |-> {}]
    /\ iterated = FALSE
    /\ spc = "notcalled"
    /\ sweepTodo = {}
    /\ sweepCur = 0
    /\ passLog = [s \in Stations |-> "none"]
    /\ matched = FALSE
    /\ lateStart = [l \in Loops |-> FALSE]

\* RecordingWatcher.__init__, an empty output tree and an empty table
InitWatcher ==
    /\ onDisk = [f \in Files |-> FALSE]
    /\ age = [f \in Files |-> 0]
    /\ recording = [f \in Files |-> <<>>]
    /\ wpc = [w \in Watchers |-> "off"]
    /\ wstreams = [w \in Watchers |-> {}]
    /\ wnext = [w \in Watchers |-> 1]
    /\ wfiles = [w \in Watchers |-> {}]
    /\ wcur = [w \in Watchers |-> 0]
    /\ wdur = [w \in Watchers |-> 0]
    /\ wprobe = [w \in Watchers |-> "none"]
    /\ wlog = [w \in Watchers |-> [f \in Files |-> "none"]]

\* no rebuild requested, nothing for the segmenter to read
InitSegmenter ==
    /\ analysed = <<>>
    /\ speech_blocks = <<>>
    /\ min_duration = MinDuration
    /\ rpc = [c \in Callers |-> "idle"]
    /\ rstation = [c \in Callers |-> 1]
    /\ rday = [c \in Callers |-> 0]
    /\ rpending = [c \in Callers |-> <<>>]
    /\ rbefore = [c \in Callers |-> <<>>]

\* no date
NoTime == [Y |-> 0, m |-> 0, d |-> 0, H |-> 0, M |-> 0, S |-> 0]

\* nothing created, written or scanned yet, at noon of 1 January 2023
InitNames ==
    /\ now = [Y |-> 2023, m |-> 1, d |-> 1, H |-> 12, M |-> 0, S |-> 0]
    /\ made = {}
    /\ segment = [path |-> <<>>, at |-> NoTime]
    /\ parsed = [status |-> "none", ts |-> NoTime]

\* a station captured with every default, build_command not called
InitBuilder ==
    /\ stream_config = [url |-> "http://radio", name |-> "radio1",
                        mandatory_params |-> <<>>, optional_params |-> <<>>]
    /\ built = [status |-> "none", cmd |-> <<>>]
    /\ InitNames

Init == InitManager /\ InitWatcher /\ InitSegmenter /\ InitBuilder

\* -------------------------------------------------- the HTTP layer's writes
Enable(s) ==
    /\ CpuFree
    /\ exists[s] /\ ~enabled[s]
    /\ enabled' = [enabled EXCEPT ![s] = TRUE]
    /\ UNCHANGED <<exists, current_status, last_error, last_up, configOk,
                   events, procVars, processes,
                   running, lockVars, pc, passVars, stopVars, histVars>>
    /\ UNCHANGED <<dirVars, compVars>>

Disable(s) ==
    /\ CpuFree
    /\ exists[s] /\ enabled[s]
    /\ enabled' = [enabled EXCEPT ![s] = FALSE]
    /\ UNCHANGED <<exists, current_status, last_error, last_up, configOk,
                   events, procVars, processes,
                   running, lockVars, pc, passVars, stopVars, histVars>>
    /\ UNCHANGED <<dirVars, compVars>>

Delete(s) ==
    /\ CpuFree
    /\ exists[s]
    /\ exists' = [exists EXCEPT ![s] = FALSE]
    /\ enabled' = [enabled EXCEPT ![s] = FALSE]
    /\ current_status' = [current_status EXCEPT ![s] = "stopped"]
    /\ last_error' = [last_error EXCEPT ![s] = "none"]
    /\ last_up' = [last_up EXCEPT ![s] = 0]
    /\ UNCHANGED <<configOk, events, procVars, processes, running, lockVars,
                   pc, passVars, stopVars, histVars>>
    /\ UNCHANGED <<dirVars, compVars>>

\* the url or the name of the row is rewritten, to a value the builder
\* accepts or to an empty one
Reconfigure(s) ==
    /\ CpuFree
    /\ exists[s]
    /\ configOk' = [configOk EXCEPT ![s] = ~configOk[s]]
    /\ UNCHANGED <<exists, enabled, current_status, last_error, last_up,
                   events, procVars, processes,
                   running, lockVars, pc, passVars, stopVars, histVars>>
    /\ UNCHANGED <<dirVars, compVars>>

\* ------------------------------------------------------- capture processes
\* the process has ended and the event loop records its returncode
Ended(p) ==
    IF p \in Referenced
    THEN /\ procState' = [procState EXCEPT ![p] = "exited"]
         /\ UNCHANGED <<procStation, sigterm>>
    ELSE DropHandles({}, {p})

\* the process ends on its own (stream ended, ffmpeg failed)
ProcExit(p) ==
    /\ CpuFree
    /\ procState[p] = "alive"
    /\ Ended(p)
    /\ UNCHANGED <<dbVars, processes, running, lockVars, pc, passVars,
                   stopVars, histVars>>
    /\ UNCHANGED <<dirVars, compVars>>

\* the process ends because it received SIGTERM
ProcTermExit(p) ==
    /\ CpuFree
    /\ procState[p] = "alive" /\ sigterm[p] = "obeyed"
    /\ Ended(p)
    /\ UNCHANGED <<dbVars, processes, running, lockVars, pc, passVars,
                   stopVars, histVars>>
    /\ UNCHANGED <<dirVars, compVars>>

\* -------------------------------------------------------- StreamManager.start
Start(l) ==
    /\ CpuFree
    /\ pc[l] = "unstarted" /\ spc = "notcalled"
    /\ running' = TRUE
    /\ pc' = [pc EXCEPT ![l] = "ready"]
    /\ UNCHANGED <<dbVars, procVars, processes, lockVars, passVars, stopVars,
                   histVars>>
    /\ UNCHANGED <<dirVars, compVars>>

\* ------------------------------------- monitor_loop and reconcile_streams
\* streams = session.exec(select(Stream)).all(): the rows as the pass sees them
Snapshot == [s \in Stations |->
                IF ~exists[s] THEN "absent"
                ELSE IF enabled[s] THEN "en" ELSE "dis"]

\* tracked state already equals desired state for the rows in sn
Matches(sn) ==
    \A s \in Stations :
        /\ sn[s] = "en" => (Tracked(s) /\ ReturncodeNone(processes[s]))
        /\ sn[s] = "dis" => ~Tracked(s)

\* the body of "async with self._lock" begins: the query at line 91 either
\* returns the rows or raises (the store is unreachable), which leaves the
\* block, releases the lock and takes monitor_loop to its except branch
EnterPass(l, queryOk) ==
    IF queryOk
    THEN /\ snap' = Snapshot
         /\ idx' = 1
         /\ waited' = 0
         /\ pc' = [pc EXCEPT ![l] = "iter"]
         /\ passLog' = [s \in Stations |-> "none"]
         /\ matched' = Matches(Snapshot)
         /\ lockHolder' = l
         /\ UNCHANGED <<waiters, dirVars>>
    ELSE /\ pc' = [pc EXCEPT ![l] = "caught"]
         /\ iterated' = TRUE
         /\ UNCHANGED <<snap, idx, waited, passLog, matched, dirs>>
         /\ IF lockHolder = l THEN Release ELSE UNCHANGED lockVars

\* while self.running: await self.reconcile_streams(), up to the point where
\* the pass holds the lock.  A loop that finds the lock held queues behind
\* its holder and goes on here once the lock is handed to it.
PassBegin(l) ==
    /\ CpuFree
    /\ IF pc[l] = "waitLock"
       THEN /\ lockHolder = l
            /\ \E queryOk \in BOOLEAN :
                 /\ EnterPass(l, queryOk)
                 /\ lateStart' = [lateStart EXCEPT
                                    ![l] = queryOk /\ lateStart[l]]
       ELSE /\ pc[l] = "ready"
            /\ IF ~LoopContinues
               THEN /\ pc' = [pc EXCEPT ![l] = "ended"]
                    /\ UNCHANGED <<lockVars, passVars, dirVars, histVars>>
               ELSE IF LockAvailable
                    THEN \E queryOk \in BOOLEAN :
                           /\ EnterPass(l, queryOk)
                           /\ lateStart' = [lateStart EXCEPT
                                  ![l] = queryOk /\ spc # "notcalled"]
                    ELSE /\ waiters' = Append(waiters, l)
                         /\ pc' = [pc EXCEPT ![l] = "waitLock"]
                         /\ lateStart' = [lateStart EXCEPT
                                            ![l] = (spc # "notcalled")]
                         /\ UNCHANGED <<lockHolder, passVars, dirVars,
                                        passLog, matched>>
    /\ UNCHANGED <<dbVars, procVars, processes, running, stopVars>>
    /\ UNCHANGED compVars

\* variant: an exception of the pass ends the loop
AfterErrorEnded == "ended"

\* the loop after its except branch: at "await asyncio.sleep(10)"
AfterError == "ready"

\* monitor_loop lines 50-53: the exception of the pass is logged and the
\* loop goes to sleep like after any other pass
LogError(l) ==
    /\ pc[l] = "caught"
    /\ pc' = [pc EXCEPT ![l] = AfterError]
    /\ UNCHANGED <<dbVars, procVars, processes, running, lockVars, passVars,
                   stopVars, histVars>>
    /\ UNCHANGED <<dirVars, compVars>>

\* variant: a tracked enabled station whose row no longer validates is
\* stopped
BranchStopsChanged(s) ==
    IF snap[s] = "absent" THEN "norow"
    ELSE IF snap[s] = "en"
         THEN IF ~Tracked(s) THEN "start"
              ELSE IF ~ReturncodeNone(processes[s]) THEN "failure"
              ELSE IF ~configOk[s] THEN "stop"
              ELSE "keep"
         ELSE IF Tracked(s) THEN "stop" ELSE "idle"

\* variant: a tracked enabled station is treated as dead without looking at
\* proc.returncode
BranchNoReturncodeCheck(s) ==
    IF snap[s] = "absent" THEN "norow"
    ELSE IF snap[s] = "en"
         THEN IF ~Tracked(s) THEN "start" ELSE "failure"
         ELSE IF Tracked(s) THEN "stop" ELSE "idle"

\* the branch of the for-loop body taken for station s (lines 95-109)
Branch(s) ==
    IF snap[s] = "absent" THEN "norow"
    ELSE IF snap[s] = "en"
         THEN IF ~Tracked(s) THEN "start"
              ELSE IF ~ReturncodeNone(processes[s]) THEN "failure"
              ELSE "keep"
         ELSE IF Tracked(s) THEN "stop" ELSE "idle"

\* variant: a failed station ends the for-loop
NextRowNoneAfterFailure(what) ==
    IF what \in {"launchfail", "failure"} THEN NumStations + 1 ELSE idx + 1

\* the for-loop goes on with the next row, whatever the outcome for this
\* one: start_stream swallows its exception, handle_failure raises none
NextRow(what) == idx + 1

Advance(s, what) ==
    /\ idx' = NextRow(what)
    /\ passLog' = [passLog EXCEPT ![s] = what]
    /\ UNCHANGED <<matched, lateStart>>

\* nothing to do for this row
IterKeep(l) ==
    /\ pc[l] = "iter" /\ idx \in Stations
    /\ Branch(idx) \in {"norow", "keep", "idle"}
    /\ Advance(idx, Branch(idx))
    /\ UNCHANGED <<dbVars, procVars, processes, running, lockVars, pc, snap,
                   waited, stopVars>>
    /\ UNCHANGED <<dirVars, compVars>>

\* variant: handle_failure leaves the dead handle in the table
AfterFailureKept(s) == processes

\* handle_failure: del self.processes[stream.id]
AfterFailure(s) == [processes EXCEPT ![s] = 0]

IterFailure(l) ==
    /\ pc[l] = "iter" /\ idx \in Stations
    /\ Branch(idx) = "failure"
    /\ processes' = AfterFailure(idx)
    /\ DropHandles(Referenced \ {processes'[s] : s \in Stations}, {})
    /\ WriteFailure(idx)
    /\ Advance(idx, "failure")
    /\ UNCHANGED <<running, lockVars, pc, snap, waited, stopVars>>
    /\ UNCHANGED <<dirVars, compVars>>

\* start_stream up to await asyncio.create_subprocess_exec(...):
\* ensure_directories, then build_command, whose ValueError is caught by
\* start_stream's handler (status=error, nothing launched)
SpawnBegin(l) ==
    /\ pc[l] = "iter" /\ idx \in Stations
    /\ Branch(idx) = "start"
    /\ EnsureDirectories
    /\ IF Validates(idx)
       THEN /\ pc' = [pc EXCEPT ![l] = "awaitSpawn"]
            /\ UNCHANGED <<dbVars, passVars, histVars>>
       ELSE /\ WriteStatus(idx, "error", "invalid")
            /\ Advance(idx, "launchfail")
            /\ UNCHANGED <<pc, snap, waited>>
    /\ UNCHANGED <<procVars, processes, running, lockVars, stopVars,
                   iterated>>
    /\ UNCHANGED compVars

\* the handle create_subprocess_exec returns for station s: a process that
\* did not exist before
NewProc(s) == IF procState[s] = "free" THEN s ELSE NumStations + s

\* proc.terminate(): SIGTERM reaches the process, which honours it or not
Terminate(p) ==
    \E how \in {"obeyed", "ignored"} :
        sigterm' = [sigterm EXCEPT ![p] = IF @ = "none" THEN how ELSE @]

\* variant: start_stream does not record the handle
AfterSpawnLost(s, p) == processes

\* self.processes[stream.id] = proc
AfterSpawn(s, p) == [processes EXCEPT ![s] = p]

\* start_stream from the await on: the launch succeeded (the handle is
\* recorded, status=running) or raised (status=error, nothing recorded)
SpawnEnd(l) ==
    /\ pc[l] = "awaitSpawn"
    /\ \E ok \in BOOLEAN :
         IF ok
         THEN /\ procState' = [procState EXCEPT ![NewProc(idx)] = "alive"]
              /\ procStation' = [procStation EXCEPT ![NewProc(idx)] = idx]
              /\ processes' = AfterSpawn(idx, NewProc(idx))
              /\ WriteRunning(idx, NewProc(idx))
              /\ Advance(idx, "spawned")
              /\ UNCHANGED sigterm
         ELSE /\ WriteStatus(idx, "error", "launch")
              /\ Advance(idx, "launchfail")
              /\ UNCHANGED <<procVars, processes>>
    /\ pc' = [pc EXCEPT ![l] = "iter"]
    /\ UNCHANGED <<running, lockVars, snap, waited, stopVars>>
    /\ UNCHANGED <<dirVars, compVars>>

\* stop_stream on a process whose returncode is None: proc.terminate(), then
\* await asyncio.wait_for(proc.wait(), timeout=5.0)
StopBegin(l) ==
    /\ pc[l] = "iter" /\ idx \in Stations
    /\ Branch(idx) = "stop"
    /\ ReturncodeNone(processes[idx])
    /\ Terminate(processes[idx])
    /\ waited' = 0
    /\ pc' = [pc EXCEPT ![l] = "awaitStop"]
    /\ UNCHANGED <<dbVars, procState, procStation, processes, running,
                   lockVars, snap, idx, stopVars, histVars>>
    /\ UNCHANGED <<dirVars, compVars>>

\* variant: stop_stream leaves the handle in the table
AfterStopKept(s) == processes

\* del self.processes[stream_id]
AfterStop(s) == [processes EXCEPT ![s] = 0]

\* stop_stream on a tracked process that has already exited: no signal
StopDead(l) ==
    /\ pc[l] = "iter" /\ idx \in Stations
    /\ Branch(idx) = "stop"
    /\ ~ReturncodeNone(processes[idx])
    /\ processes' = AfterStop(idx)
    /\ DropHandles(Referenced \ {processes'[s] : s \in Stations}, {})
    /\ WriteStopped(idx)
    /\ Advance(idx, "stopped")
    /\ UNCHANGED <<running, lockVars, pc, snap, waited, stopVars>>
    /\ UNCHANGED <<dirVars, compVars>>

\* the timeout of wait_for elapses while the wait is pending
Tick(l) ==
    /\ pc[l] = "awaitStop"
    /\ waited < GracePeriod
    /\ waited' = GracePeriod
    /\ UNCHANGED <<dbVars, procVars, processes, running, lockVars, pc, snap,
                   idx, stopVars, histVars>>
    /\ UNCHANGED <<dirVars, compVars>>

\* proc.wait() returned within the timeout
StopEndExited(l) ==
    /\ pc[l] = "awaitStop"
    /\ ~ReturncodeNone(processes[idx])
    /\ processes' = AfterStop(idx)
    /\ DropHandles(Referenced \ {processes'[s] : s \in Stations}, {})
    /\ WriteStopped(idx)
    /\ Advance(idx, "stopped")
    /\ waited' = 0
    /\ pc' = [pc EXCEPT ![l] = "iter"]
    /\ UNCHANGED <<running, lockVars, snap, stopVars>>
    /\ UNCHANGED <<dirVars, compVars>>

\* variant: the wait is given no time (timeout=0)
TimedOutAtOnce == TRUE

\* wait_for raises TimeoutError once the timeout has elapsed
TimedOut == waited = GracePeriod

\* except asyncio.TimeoutError: proc.kill()
Killed(s) == {processes[s]}

StopEndTimeout(l) ==
    /\ pc[l] = "awaitStop"
    /\ ReturncodeNone(processes[idx])
    /\ TimedOut
    /\ processes' = AfterStop(idx)
    /\ DropHandles(Referenced \ {processes'[s] : s \in Stations}, Killed(idx))
    /\ WriteStopped(idx)
    /\ Advance(idx, "killed")
    /\ waited' = 0
    /\ pc' = [pc EXCEPT ![l] = "iter"]
    /\ UNCHANGED <<running, lockVars, snap, stopVars>>
    /\ UNCHANGED <<dirVars, compVars>>

\* the for-loop is exhausted: leave the lock, back to monitor_loop, which
\* calls ensure_directories, sleeps and then tests self.running again
PassEnd(l) ==
    /\ PassDone(l)
    /\ Release
    /\ EnsureDirectories
    /\ iterated' = TRUE
    /\ pc' = [pc EXCEPT ![l] = "ready"]
    /\ snap' = [s \in Stations |-> "absent"]
    /\ idx' = 1
    /\ passLog' = [s \in Stations |-> "none"]
    /\ matched' = FALSE
    /\ lateStart' = [lateStart EXCEPT ![l] = FALSE]
    /\ UNCHANGED <<dbVars, procVars, processes, running, waited, stopVars>>
    /\ UNCHANGED compVars

\* ------------------------------------------------------- StreamManager.stop
\* the keys of self.processes
TrackedStations == {s \in Stations : Tracked(s)}

\* self.running = False; async with self._lock
StopCall ==
    /\ CpuFree
    /\ spc = "notcalled"
    /\ \E l \in Loops : pc[l] # "unstarted"
    /\ running' = FALSE
    /\ IF LockAvailable
       THEN /\ lockHolder' = "stop"
            /\ spc' = "sweep"
            /\ sweepTodo' = TrackedStations
            /\ UNCHANGED waiters
       ELSE /\ waiters' = Append(waiters, "stop")
            /\ spc' = "waitLock"
            /\ UNCHANGED <<lockHolder, sweepTodo>>
    /\ UNCHANGED <<dbVars, procVars, processes, pc, passVars, sweepCur,
                   histVars>>
    /\ UNCHANGED <<dirVars, compVars>>

\* the lock was handed to the stop task
StopResume ==
    /\ CpuFree
    /\ spc = "waitLock" /\ lockHolder = "stop"
    /\ spc' = "sweep"
    /\ sweepTodo' = TrackedStations
    /\ UNCHANGED <<dbVars, procVars, processes, running, lockVars, pc,
                   passVars, sweepCur, histVars>>
    /\ UNCHANGED <<dirVars, compVars>>

\* one iteration of "for stream_id, proc in self.processes.items()":
\* returncode set: skipped; otherwise proc.terminate(), which either succeeds
\* (then await proc.wait()) or raises (caught and logged, next entry)
SweepStep(s) ==
    /\ spc = "sweep" /\ s \in sweepTodo
    /\ IF ReturncodeNone(processes[s])
       THEN \E raised \in BOOLEAN :
              IF raised
              THEN /\ sweepTodo' = sweepTodo \ {s}
                   /\ UNCHANGED <<spc, sweepCur, sigterm>>
              ELSE /\ Terminate(processes[s])
                   /\ spc' = "sweepWait"
                   /\ sweepCur' = s
                   /\ UNCHANGED sweepTodo
       ELSE /\ sweepTodo' = sweepTodo \ {s}
            /\ UNCHANGED <<spc, sweepCur, sigterm>>
    /\ UNCHANGED <<dbVars, procState, procStation, processes, running,
                   lockVars, pc, passVars, histVars>>
    /\ UNCHANGED <<dirVars, compVars>>

\* await proc.wait() returned
SweepWaitDone ==
    /\ spc = "sweepWait"
    /\ ~ReturncodeNone(processes[sweepCur])
    /\ sweepTodo' = sweepTodo \ {sweepCur}
    /\ sweepCur' = 0
    /\ spc' = "sweep"
    /\ UNCHANGED <<dbVars, procVars, processes, running, lockVars, pc,
                   passVars, histVars>>
    /\ UNCHANGED <<dirVars, compVars>>

\* self.processes.clear()
AfterClear == [s \in Stations |-> 0]

SweepFinish ==
    /\ spc = "sweep" /\ sweepTodo = {}
    /\ processes' = AfterClear
    /\ DropHandles(Referenced \ {processes'[s] : s \in Stations}, {})
    /\ Release
    /\ spc' = "returned"
    /\ UNCHANGED <<dbVars, running, pc, passVars, sweepTodo, sweepCur,
                   histVars>>
    /\ UNCHANGED <<dirVars, compVars>>

\* ------------------------------------------------------------- the calendar
\* Midnight: tomorrow's directory becomes today's.  A running monitor loop
\* sleeps 10 seconds between iterations, so at least one of its iterations
\* ends between two midnights.
NoLoopRunning == \A l \in Loops : pc[l] \in {"unstarted", "ended"}

Rollover ==
    /\ CpuFree
    /\ iterated \/ NoLoopRunning
    /\ dirs' = [s \in Stations |-> {d - 1 : d \in dirs[s] \ {0}}]
    /\ iterated' = FALSE
    /\ UNCHANGED <<dbVars, procVars, processes, running, lockVars, pc,
                   passVars, stopVars, histVars, compVars>>

\* ------------------------------------------------------------ specification
\* on_startup: await manager.start(), once
StartUp == Start("L1")

\* on_shutdown: await manager.stop()
Shutdown == StopCall

Next ==
    \/ \E s \in Stations : Enable(s) \/ Disable(s) \/ Delete(s)
    \/ \E p \in Procs : ProcExit(p) \/ ProcTermExit(p)
    \/ StartUp
    \/ \E l \in Loops :
         \/ PassBegin(l) \/ LogError(l)
         \/ IterKeep(l) \/ IterFailure(l)
         \/ SpawnBegin(l) \/ SpawnEnd(l)
         \/ StopBegin(l) \/ StopDead(l) \/ Tick(l)
         \/ StopEndExited(l) \/ StopEndTimeout(l)
         \/ PassEnd(l)
    \/ Shutdown \/ StopResume
    \/ \E s \in Stations : SweepStep(s)
    \/ SweepWaitDone \/ SweepFinish

\* the service as main.py runs it: one call of start(), one monitor loop
Spec == Init /\ [][Next]_vars

\* start() does not refuse a second call: each call creates one more
\* monitor loop on the same manager
StartAgain == \E l \in Loops \ {"L1"} : pc["L1"] # "unstarted" /\ Start(l)

NextMulti == Next \/ StartAgain

SpecMulti == Init /\ [][NextMulti]_vars

\* the service while the configuration surface rewrites the stations
NextConfig == Next \/ \E s \in Stations : Reconfigure(s)

SpecConfig == Init /\ [][NextConfig]_vars

\* the service running across changes of day
NextDays == Next \/ Rollover

SpecDays == Init /\ [][NextDays]_vars

\* the scheduling the event loop guarantees: a coroutine that can run does
\* run, timers fire, and a process that honours SIGTERM ends once it got it.
\* Nothing obliges the HTTP layer to write, a process to fail on its own, or
\* the operator to shut the service down.
Fairness ==
    /\ \A l \in Loops :
         /\ WF_vars(PassBegin(l)) /\ WF_vars(LogError(l))
         /\ WF_vars(IterKeep(l)) /\ WF_vars(IterFailure(l))
         /\ WF_vars(SpawnBegin(l)) /\ WF_vars(SpawnEnd(l))
         /\ WF_vars(StopBegin(l)) /\ WF_vars(StopDead(l))
         /\ WF_vars(Tick(l))
         /\ WF_vars(StopEndExited(l)) /\ WF_vars(StopEndTimeout(l))
         /\ WF_vars(PassEnd(l))
    /\ WF_vars(StopResume)
    /\ \A s \in Stations : WF_vars(SweepStep(s))
    /\ WF_vars(SweepWaitDone) /\ WF_vars(SweepFinish)
    /\ \A p \in Procs : WF_vars(ProcTermExit(p))

FairSpec == Spec /\ Fairness

\* ================================================= the Discovery Watcher
\* File names under a station's tree, as the fields scan_files' parser
\* separates: the parts of the name between underscores up to the first
\* dot, and the extension.  The capture command writes
\* chunk_%Y%m%d%H%M%S.<format>; other files can be put there by anyone.
NameList ==
    << [fields |-> <<"chunk", "20230101120000">>, ext |-> "wav"],
       [fields |-> <<"chunk", "20230101130000">>, ext |-> "flac"],
       [fields |-> <<"chunk", "notadate">>, ext |-> "wav"],
       [fields |-> <<"jingle", "20230101140000">>, ext |-> "mp3"],
       [fields |-> <<"chunk20230101150000">>, ext |-> "mp3"] >>

NameOf(f) == NameList[((f - 1) % Len(NameList)) + 1]

\* the station whose directory /data/recordings/<stream.name> holds the file
StationOf(f) == ((f - 1) % NumStations) + 1

\* strings datetime.strptime(ts_str, "%Y%m%d%H%M%S") accepts
Timestamps == {"20230101120000", "20230101130000", "20230101140000"}

\* the name is one the capture command produces (for some format)
CaptureWritten(f) ==
    /\ Len(NameOf(f).fields) = 2
    /\ NameOf(f).fields[1] = "chunk"
    /\ NameOf(f).fields[2] \in Timestamps

\* file.endswith((".wav", ".mp3"))
HasAudioExt(f) == NameOf(f).ext \in {"wav", "mp3"}

\* variant: the lookup by path finds nothing
ExistingNever(f) == FALSE

\* session.exec(select(Recording).where(Recording.path == full_path)).first()
Existing(f) == recording[f] # <<>>

\* variant: the modification time is not looked at
FreshNever(f) == FALSE

\* datetime.now().timestamp() - stats.st_mtime < 10
Fresh(f) == age[f] < StabilityWindow

\* get_duration's result when it raises to its caller (it never does)
Raised == 0 - 1

\* variant: a failed probe raises to scan_files
GetDurationRaises(outcome) == IF outcome = "ok" THEN ProbedSeconds ELSE Raised

\* get_duration: the float ffprobe printed, or 0.0 when ffprobe returned
\* non-zero, could not be run or printed no number
GetDuration(outcome) == IF outcome = "ok" THEN ProbedSeconds ELSE 0

\* ts_str = file.split("_")[1].split(".")[0]; datetime.strptime(ts_str, ...):
\* the timestamp, or the exception raised
ParseStart(f) ==
    IF Len(NameOf(f).fields) < 2 THEN "IndexError"
    ELSE IF NameOf(f).fields[2] \in Timestamps THEN NameOf(f).fields[2]
         ELSE "ValueError"

ParseOk(f) == ParseStart(f) \in Timestamps

\* variant: an exception while processing a file ends the walk
RemainingNoneAfterError(w, f, what) ==
    IF what \in {"staterr", "parseerr", "inserterr"} THEN {}
    ELSE wfiles[w] \ {f}

\* "continue", or the except branch at line 88: on to the next file
Remaining(w, f, what) == wfiles[w] \ {f}

\* the scan is through with file f
Finish(w, f, what) ==
    /\ wfiles' = [wfiles EXCEPT ![w] = Remaining(w, f, what)]
    /\ wlog' = [wlog EXCEPT ![w][f] = what]
    /\ wcur' = [wcur EXCEPT ![w] = 0]
    /\ wdur' = [wdur EXCEPT ![w] = 0]
    /\ wprobe' = [wprobe EXCEPT ![w] = "none"]
    /\ wpc' = [wpc EXCEPT ![w] = "walk"]

supVars == <<dbVars, procVars, processes, running, lockVars, pc, passVars,
             dirVars, stopVars, histVars, bldVars>>

\* ---- the capture processes and the clock, as the output tree shows them
\* a capture process opens a new segment file
CreateFile(f) ==
    /\ ~onDisk[f]
    /\ onDisk' = [onDisk EXCEPT ![f] = TRUE]
    /\ age' = [age EXCEPT ![f] = 0]
    /\ UNCHANGED <<supVars, segVars, recording, scanVars>>

\* the file is written to again
Touch(f) ==
    /\ onDisk[f] /\ age[f] > 0
    /\ age' = [age EXCEPT ![f] = 0]
    /\ UNCHANGED <<supVars, segVars, onDisk, recording, scanVars>>

\* time passes without a write to the file
AgeFile(f) ==
    /\ onDisk[f] /\ age[f] < StabilityWindow
    /\ age' = [age EXCEPT ![f] = IF @ = 0 THEN StabilityWindow - 1
                                 ELSE StabilityWindow]
    /\ UNCHANGED <<supVars, segVars, onDisk, recording, scanVars>>

\* ---- RecordingWatcher
\* start: one loop task in the calling process
StartWatcher(w) ==
    /\ wpc[w] = "off"
    /\ wpc' = [wpc EXCEPT ![w] = "sleep"]
    /\ UNCHANGED <<supVars, segVars, diskVars, recording, wstreams, wnext, wfiles,
                   wcur, wdur, wlog, wprobe>>

\* scan_files begins: streams = session.exec(select(Stream)).all(), which
\* returns the rows or raises (the store is unreachable) and takes loop to
\* its except branch
ScanBegin(w) ==
    /\ wpc[w] = "sleep"
    /\ \E queryOk \in BOOLEAN :
         IF queryOk
         THEN /\ wstreams' = [wstreams EXCEPT
                     ![w] = {s \in Stations : exists[s] /\ enabled[s]}]
              /\ wnext' = [wnext EXCEPT ![w] = 1]
              /\ wpc' = [wpc EXCEPT ![w] = "walk"]
         ELSE /\ wpc' = [wpc EXCEPT ![w] = "caught"]
              /\ UNCHANGED <<wstreams, wnext>>
    /\ UNCHANGED <<supVars, segVars, diskVars, recording, wfiles, wcur, wdur,
                   wlog, wprobe>>

\* the loop after its except branch: at "await asyncio.sleep(60)"
AfterScanError == "sleep"

\* loop lines 27-29: the exception of the scan is logged and the loop goes
\* to sleep like after any other scan
LogScanError(w) ==
    /\ wpc[w] = "caught"
    /\ wpc' = [wpc EXCEPT ![w] = AfterScanError]
    /\ UNCHANGED <<supVars, segVars, diskVars, recording, wstreams, wnext,
                   wfiles, wcur, wdur, wlog, wprobe>>

\* the files os.walk(base_dir) yields for a station (a station that is not
\* enabled or has no directory yields none)
Listing(w, s) ==
    IF s \in wstreams[w]
    THEN {f \in Files : onDisk[f] /\ StationOf(f) = s}
    ELSE {}

\* for stream in streams: the next row
WalkStation(w) ==
    /\ wpc[w] = "walk" /\ wfiles[w] = {} /\ wnext[w] \in Stations
    /\ wfiles' = [wfiles EXCEPT ![w] = Listing(w, wnext[w])]
    /\ wlog' = [wlog EXCEPT ![w] =
                  [f \in Files |-> IF f \in Listing(w, wnext[w])
                                   THEN "listed" ELSE @[f]]]
    /\ wnext' = [wnext EXCEPT ![w] = @ + 1]
    /\ UNCHANGED <<supVars, segVars, diskVars, recording, wpc, wstreams, wcur, wdur,
                   wprobe>>

\* for file in files, up to the call of get_duration: the extension, the
\* lookup by path, os.stat and the age of the file
Examine(w, f) ==
    /\ wpc[w] = "walk" /\ f \in wfiles[w]
    /\ IF ~HasAudioExt(f) THEN Finish(w, f, "ext")
       ELSE IF Existing(f) THEN Finish(w, f, "known")
       ELSE \E statOk \in BOOLEAN :
              IF ~statOk THEN Finish(w, f, "staterr")
              ELSE IF Fresh(f) THEN Finish(w, f, "fresh")
              ELSE /\ wcur' = [wcur EXCEPT ![w] = f]
                   /\ wpc' = [wpc EXCEPT ![w] = "probe"]
                   /\ UNCHANGED <<wfiles, wdur, wlog, wprobe>>
    /\ UNCHANGED <<supVars, segVars, diskVars, recording, wstreams, wnext>>

\* duration = self.get_duration(full_path): ffprobe has run
ProbeEnd(w) ==
    /\ wpc[w] = "probe"
    /\ \E outcome \in {"ok", "failed"} :
         IF GetDuration(outcome) = Raised
         THEN /\ Finish(w, wcur[w], "probeerr")
              /\ UNCHANGED recording
         ELSE /\ wdur' = [wdur EXCEPT ![w] = GetDuration(outcome)]
              /\ wprobe' = [wprobe EXCEPT ![w] = outcome]
              /\ wpc' = [wpc EXCEPT ![w] = "insert"]
              /\ UNCHANGED <<recording, wfiles, wcur, wlog>>
    /\ UNCHANGED <<supVars, segVars, diskVars, wstreams, wnext>>

\* the row scan_files builds for file f
NewRecording(w, f) ==
    [start_ts |-> ParseStart(f), duration_seconds |-> wdur[w],
     status |-> "completed"]

\* the start time is parsed from the name, then session.add(rec);
\* session.commit(): table recording has no constraint on path, so the
\* insert fails only when the store does
Register(w) ==
    /\ wpc[w] = "insert"
    /\ IF ~ParseOk(wcur[w])
       THEN /\ Finish(w, wcur[w], "parseerr")
            /\ UNCHANGED recording
       ELSE \E insertOk \in BOOLEAN :
              IF insertOk /\ Len(recording[wcur[w]]) < MaxRows
              THEN /\ recording' = [recording EXCEPT ![wcur[w]] =
                                      Append(@, NewRecording(w, wcur[w]))]
                   /\ Finish(w, wcur[w], "registered")
              ELSE /\ Finish(w, wcur[w], "inserterr")
                   /\ UNCHANGED recording
    /\ UNCHANGED <<supVars, segVars, diskVars, wstreams, wnext>>

\* every row and every file of the scan has been gone through
ScanDone(w) ==
    wpc[w] = "walk" /\ wfiles[w] = {} /\ wnext[w] = NumStations + 1

\* scan_files returns; loop sleeps 60 seconds
ScanEnd(w) ==
    /\ ScanDone(w)
    /\ wpc' = [wpc EXCEPT ![w] = "sleep"]
    /\ wstreams' = [wstreams EXCEPT ![w] = {}]
    /\ wnext' = [wnext EXCEPT ![w] = 1]
    /\ wlog' = [wlog EXCEPT ![w] = [f \in Files |-> "none"]]
    /\ UNCHANGED <<supVars, segVars, diskVars, recording, wfiles, wcur, wdur, wprobe>>

\* ---- specifications of the watcher
\* the station rows are valid and stay as they are while the watcher is
\* looked at on its own
InitWatch == Init /\ configOk = [s \in Stations |-> TRUE]

Scans(w) ==
    \/ ScanBegin(w) \/ LogScanError(w) \/ WalkStation(w)
    \/ \E f \in Files : Examine(w, f)
    \/ ProbeEnd(w) \/ Register(w)
    \/ ScanEnd(w)

\* on_startup: await watcher.start()
ApiStartup == StartWatcher("api")

\* run_watcher.py, main: await watcher.start()
StandaloneMain == StartWatcher("standalone")

NextWatch ==
    \/ \E f \in Files : CreateFile(f) \/ Touch(f) \/ AgeFile(f)
    \/ ApiStartup
    \/ \E w \in Watchers : Scans(w)

\* one watcher process
SpecWatch == InitWatch /\ [][NextWatch]_vars

\* both processes run, over a tree with NumSharedFiles files
SharedFiles == 1..NumSharedFiles

NextWatchBoth ==
    \/ \E f \in SharedFiles : CreateFile(f) \/ Touch(f) \/ AgeFile(f)
    \/ ApiStartup \/ StandaloneMain
    \/ \E w \in Watchers : Scans(w)

SpecWatchBoth == InitWatch /\ [][NextWatchBoth]_vars

\* a started loop keeps scanning: every step of a scan that can be taken is
\* taken.  Nothing obliges a file to appear, to be written to or to be left
\* alone.
FairnessWatch ==
    \A w \in Watchers :
        /\ WF_vars(ScanBegin(w)) /\ WF_vars(LogScanError(w))
        /\ WF_vars(WalkStation(w))
        /\ \A f \in Files : WF_vars(Examine(w, f))
        /\ WF_vars(ProbeEnd(w)) /\ WF_vars(Register(w))
        /\ WF_vars(ScanEnd(w))

FairSpecWatch == SpecWatch /\ FairnessWatch

\* ========================================================== the Segmenter
RECURSIVE LoopOver(_, _, _)

\* target_date, as a day number
Dates == {0, 1}

\* min_duration as a caller can give it: the default, or one second
MinDurations == {MinDuration, 1}

\* a column that holds NULL
NoEnd == 0 - 1
NoText == "NULL"

\* start times within a day that put two recordings on either side of
\* gap_threshold and of one another's end
StartOffsets == {0, 30, 65, 66}

\* (end_ts - start_ts or NULL, duration_seconds) as the analysis step and the
\* watcher leave them
EndKinds == {<<NoEnd, 0>>, <<NoEnd, 60>>, <<30, 60>>}

\* (classification, transcript): speech with or without a transcript, music
Analyses == {<<"speech", "hello">>, <<"speech", NoText>>, <<"music", NoText>>}

\* a row of table recording of station 1 on day 0
TargetRows ==
    { [stream_id |-> 1, start_ts |-> st,
       end_ts |-> IF k[1] = NoEnd THEN NoEnd ELSE st + k[1],
       duration_seconds |-> k[2], classification |-> a[1],
       transcript |-> a[2]] :
         st \in StartOffsets, k \in EndKinds, a \in Analyses }

\* a row of another station, and a row of the next day
ForeignRows ==
    { [stream_id |-> NumStations, start_ts |-> 0, end_ts |-> NoEnd,
       duration_seconds |-> 60, classification |-> "speech",
       transcript |-> "other"],
      [stream_id |-> 1, start_ts |-> DayLength, end_ts |-> NoEnd,
       duration_seconds |-> 60, classification |-> "speech",
       transcript |-> "later"] }

RecordingRows == TargetRows \cup ForeignRows

\* .order_by(Recording.start_ts)
OrderedByStart(rows) ==
    \A i \in 1..Len(rows) - 1 : rows[i].start_ts <= rows[i + 1].start_ts

\* the primary key: rows numbered as they were inserted, in order of start
WithIds(rows) ==
    [i \in 1..Len(rows) |->
        [id |-> i,
         stream_id |-> rows[i].stream_id,
         start_ts |-> rows[i].start_ts,
         end_ts |-> rows[i].end_ts,
         duration_seconds |-> rows[i].duration_seconds,
         classification |-> rows[i].classification,
         transcript |-> rows[i].transcript]]

RowSeqs(n) == UNION { [1..k -> RecordingRows] : k \in 0..n }

\* the tables a rebuild can find
RecordingTables(n) ==
    { WithIds(rows) : rows \in { r \in RowSeqs(n) : OrderedByStart(r) } }

\* blocks an earlier rebuild stored, over recordings since replaced
StaleBlock(s, d) ==
    [stream_id |-> s, start_ts |-> d * DayLength,
     end_ts |-> d * DayLength + 90, duration_seconds |-> 90,
     chunk_ids |-> <<9>>, text |-> <<"old">>]

BlockTables ==
    { <<StaleBlock(NumStations, 1)>>,
      <<StaleBlock(1, 0), StaleBlock(NumStations, 1)>> }

\* _day_bounds: time.min to time.max of target_date
DayStart(d) == d * DayLength
DayEnd(d) == d * DayLength + (DayLength - 1)

\* the where clause of lines 49-51 and 60-62
InDay(row, s, d) ==
    /\ row.stream_id = s
    /\ row.start_ts >= DayStart(d)
    /\ row.start_ts <= DayEnd(d)

\* variant: the duration is used even when there is an explicit end
CalcEndFromDuration(rec) ==
    IF rec.duration_seconds > 0
    THEN rec.start_ts + rec.duration_seconds
    ELSE rec.start_ts

\* _calculate_end_ts
CalcEnd(rec) ==
    IF rec.end_ts # NoEnd THEN rec.end_ts
    ELSE IF rec.duration_seconds > 0
         THEN rec.start_ts + rec.duration_seconds
         ELSE rec.start_ts

\* rec.transcript or ""
TranscriptOr(rec) == IF rec.transcript = NoText THEN "" ELSE rec.transcript

\* the locals of build_speech_blocks before the loop
NoBlockOpen ==
    [ids |-> <<>>, texts |-> <<>>, block_start |-> NoEnd,
     block_end |-> NoEnd, blocks |-> <<>>]

\* the open block starts over with rec
OpenWith(acc, rec) ==
    [ids |-> <<rec.id>>, texts |-> <<TranscriptOr(rec)>>,
     block_start |-> rec.start_ts, block_end |-> CalcEnd(rec),
     blocks |-> acc.blocks]

\* variant: a block is kept whatever its duration
FinalizeBlockKeepsShort(acc, s) ==
    IF acc.ids = <<>> THEN acc
    ELSE [NoBlockOpen EXCEPT !.blocks =
            Append(acc.blocks,
                   [stream_id |-> s,
                    start_ts |-> acc.block_start,
                    end_ts |-> acc.block_end,
                    duration_seconds |-> acc.block_end - acc.block_start,
                    chunk_ids |-> acc.ids,
                    text |-> SelectSeq(acc.texts, LAMBDA t : t # "")])]

\* finalize_block: nothing without an open block; a block shorter than
\* min_duration is dropped; "\n".join of the non-empty texts is kept as the
\* sequence of its lines
FinalizeBlock(acc, s) ==
    IF acc.ids = <<>> THEN acc
    ELSE IF acc.block_end - acc.block_start < min_duration
         THEN [NoBlockOpen EXCEPT !.blocks = acc.blocks]
         ELSE [NoBlockOpen EXCEPT !.blocks =
                 Append(acc.blocks,
                        [stream_id |-> s,
                         start_ts |-> acc.block_start,
                         end_ts |-> acc.block_end,
                         duration_seconds |-> acc.block_end - acc.block_start,
                         chunk_ids |-> acc.ids,
                         text |-> SelectSeq(acc.texts, LAMBDA t : t # "")])]

\* variant: a recording that is not speech is skipped, the block stays open
LoopBodySkipsOthers(acc, rec, s) ==
    IF rec.classification # "speech" THEN acc
    ELSE IF acc.ids = <<>> THEN OpenWith(acc, rec)
    ELSE IF rec.start_ts - acc.block_end <= GapThreshold
         THEN [acc EXCEPT
                 !.ids = Append(@, rec.id),
                 !.texts = Append(@, TranscriptOr(rec)),
                 !.block_end = IF CalcEnd(rec) > @ THEN CalcEnd(rec) ELSE @]
         ELSE OpenWith(FinalizeBlock(acc, s), rec)

\* variant: a recording is absorbed only when the gap is below the threshold
LoopBodyStrict(acc, rec, s) ==
    IF rec.classification # "speech" THEN FinalizeBlock(acc, s)
    ELSE IF acc.ids = <<>> THEN OpenWith(acc, rec)
    ELSE IF rec.start_ts - acc.block_end < GapThreshold
         THEN [acc EXCEPT
                 !.ids = Append(@, rec.id),
                 !.texts = Append(@, TranscriptOr(rec)),
                 !.block_end = IF CalcEnd(rec) > @ THEN CalcEnd(rec) ELSE @]
         ELSE OpenWith(FinalizeBlock(acc, s), rec)

\* one turn of "for rec in recordings"
LoopBody(acc, rec, s) ==
    IF rec.classification # "speech" THEN FinalizeBlock(acc, s)
    ELSE IF acc.ids = <<>> THEN OpenWith(acc, rec)
    ELSE IF rec.start_ts - acc.block_end <= GapThreshold
         THEN [acc EXCEPT
                 !.ids = Append(@, rec.id),
                 !.texts = Append(@, TranscriptOr(rec)),
                 !.block_end = IF CalcEnd(rec) > @ THEN CalcEnd(rec) ELSE @]
         ELSE OpenWith(FinalizeBlock(acc, s), rec)

\* for rec in recordings
LoopOver(acc, recs, s) ==
    IF recs = <<>> THEN acc
    ELSE LoopOver(LoopBody(acc, Head(recs), s), Tail(recs), s)

\* lines 67-122: the loop and the closing finalize_block()
BuildBlocks(recs, s) == FinalizeBlock(LoopOver(NoBlockOpen, recs, s), s).blocks

\* variant: the query has no where clause
RecordingsOfAll(s, d) == analysed

\* lines 57-65: the recordings of (station, date), in order of start
Recordings(s, d) == SelectSeq(analysed, LAMBDA r : InDay(r, s, d))

\* variant: the delete statement removes nothing
DeletedNone(b, s, d) == FALSE

\* variant: the delete statement has no bounds on start_ts
DeletedOfStation(b, s, d) == b.stream_id = s

\* lines 48-52: the rows the delete statement removes
Deleted(b, s, d) == InDay(b, s, d)

\* the blocks of (station, date) the store holds
StoredFor(s, d) == SelectSeq(speech_blocks, LAMBDA b : InDay(b, s, d))

\* ---- POST /speech-blocks/rebuild and build_speech_blocks
\* rebuild_speech_blocks: 404 for an unknown stream, else the call
RebuildCall(c) ==
    /\ rpc[c] = "idle"
    /\ \E s \in Stations, d \in Dates :
        /\ exists[s]
        /\ rstation' = [rstation EXCEPT ![c] = s]
        /\ rday' = [rday EXCEPT ![c] = d]
        /\ rbefore' = [rbefore EXCEPT ![c] = StoredFor(s, d)]
    /\ rpc' = [rpc EXCEPT ![c] = "called"]
    /\ rpending' = [rpending EXCEPT ![c] = <<>>]
    /\ UNCHANGED <<supVars, watchVars, min_duration, analysed, speech_blocks>>

\* lines 47-54: delete the blocks of the day, and commit
RebuildDelete(c) ==
    /\ rpc[c] = "called"
    /\ \E ok \in BOOLEAN :
        IF ok
        THEN /\ speech_blocks' =
                  SelectSeq(speech_blocks,
                            LAMBDA b : ~Deleted(b, rstation[c], rday[c]))
             /\ rpc' = [rpc EXCEPT ![c] = "deleted"]
        ELSE /\ rpc' = [rpc EXCEPT ![c] = "failed"]
             /\ UNCHANGED speech_blocks
    /\ UNCHANGED <<supVars, watchVars, min_duration, analysed, rstation,
                   rday, rpending, rbefore>>

\* lines 57-122: load the recordings of the day and group them; the blocks
\* are added to the session
RebuildCompute(c) ==
    /\ rpc[c] = "deleted"
    /\ \E ok \in BOOLEAN :
        IF ok
        THEN /\ rpending' = [rpending EXCEPT ![c] =
                  BuildBlocks(Recordings(rstation[c], rday[c]),
                              rstation[c])]
             /\ rpc' = [rpc EXCEPT ![c] = "computed"]
        ELSE /\ rpc' = [rpc EXCEPT ![c] = "failed"]
             /\ UNCHANGED rpending
    /\ UNCHANGED <<supVars, watchVars, min_duration, analysed,
                   speech_blocks, rstation, rday, rbefore>>

\* line 123: session.commit()
RebuildCommit(c) ==
    /\ rpc[c] = "computed"
    /\ \E ok \in BOOLEAN :
        IF ok
        THEN /\ speech_blocks' = speech_blocks \o rpending[c]
             /\ rpc' = [rpc EXCEPT ![c] = "committed"]
        ELSE /\ rpc' = [rpc EXCEPT ![c] = "failed"]
             /\ UNCHANGED speech_blocks
    /\ UNCHANGED <<supVars, watchVars, min_duration, analysed, rstation,
                   rday, rpending, rbefore>>

\* lines 125-127: refresh every block, return the list
RebuildReturn(c) ==
    /\ rpc[c] = "committed"
    /\ \E ok \in BOOLEAN :
        rpc' = [rpc EXCEPT ![c] = IF ok THEN "done" ELSE "failed"]
    /\ UNCHANGED <<supVars, watchVars, min_duration, analysed,
                   speech_blocks, rstation, rday, rpending, rbefore>>

\* the response is sent and the locals are gone; the caller can ask again
RebuildOver(c) ==
    /\ rpc[c] \in {"done", "failed"}
    /\ rpc' = [rpc EXCEPT ![c] = "idle"]
    /\ rstation' = [rstation EXCEPT ![c] = 1]
    /\ rday' = [rday EXCEPT ![c] = 0]
    /\ rpending' = [rpending EXCEPT ![c] = <<>>]
    /\ rbefore' = [rbefore EXCEPT ![c] = <<>>]
    /\ UNCHANGED <<supVars, watchVars, min_duration, analysed, speech_blocks>>

\* ---- specifications of the segmenter
Rebuild(c) ==
    \/ RebuildCall(c)
    \/ RebuildDelete(c)
    \/ RebuildCompute(c)
    \/ RebuildCommit(c)
    \/ RebuildReturn(c)
    \/ RebuildOver(c)

\* the store a rebuild is asked to work on: every stream present and valid,
\* a table of analysed recordings, blocks of an earlier rebuild
InitRebuild ==
    /\ InitManager
    /\ enabled = [s \in Stations |-> TRUE]
    /\ configOk = [s \in Stations |-> TRUE]
    /\ InitWatcher
    /\ InitBuilder
    /\ analysed \in RecordingTables(MaxRecs)
    /\ speech_blocks \in BlockTables
    /\ min_duration = MinDuration
    /\ rpc = [c \in Callers |-> "idle"]
    /\ rstation = [c \in Callers |-> 1]
    /\ rday = [c \in Callers |-> 0]
    /\ rpending = [c \in Callers |-> <<>>]
    /\ rbefore = [c \in Callers |-> <<>>]

\* one request at a time
NextRebuild == Rebuild("r1")

SpecRebuild == InitRebuild /\ [][NextRebuild]_vars

\* ---- build_speech_blocks called on a store of its own, as the tests do
\* speech with or without a transcript, music, and no classification yet
RunAnalyses == Analyses \cup {<<"NULL", NoText>>}

SortedStarts(n) ==
    { st \in [1..n -> StartOffsets] :
        \A i \in 1..n - 1 : st[i] <= st[i + 1] }

\* n recordings of station 1 on day 0 in order of start, numbered as they
\* were inserted, which is or is not the order of their start times
RunTable(n, st, k, a, reversed) ==
    [i \in 1..n |->
        [id |-> IF reversed THEN n + 1 - i ELSE i,
         stream_id |-> 1,
         start_ts |-> st[i],
         end_ts |-> IF k[i][1] = NoEnd THEN NoEnd ELSE st[i] + k[i][1],
         duration_seconds |-> k[i][2],
         classification |-> a[i][1],
         transcript |-> a[i][2]]]

\* lines 43-127 for the station and day of the recordings, with no store
\* failure and no other session: delete, commit, load, group, commit, return
BuildSpeechBlocks(c) ==
    /\ rpc[c] = "idle"
    /\ \E s \in {1}, d \in {0} :
        /\ rstation' = [rstation EXCEPT ![c] = s]
        /\ rday' = [rday EXCEPT ![c] = d]
        /\ rbefore' = [rbefore EXCEPT ![c] = StoredFor(s, d)]
        /\ rpending' = [rpending EXCEPT ![c] =
                           BuildBlocks(Recordings(s, d), s)]
        /\ speech_blocks' =
              SelectSeq(speech_blocks, LAMBDA b : ~Deleted(b, s, d))
                \o BuildBlocks(Recordings(s, d), s)
    /\ rpc' = [rpc EXCEPT ![c] = "done"]
    /\ UNCHANGED <<supVars, watchVars, min_duration, analysed>>

InitBlocks ==
    /\ InitManager
    /\ enabled = [s \in Stations |-> TRUE]
    /\ configOk = [s \in Stations |-> TRUE]
    /\ InitWatcher
    /\ InitBuilder
    /\ \E n \in 0..MaxRun :
         \E st \in SortedStarts(n), k \in [1..n -> EndKinds],
            a \in [1..n -> RunAnalyses], rev \in BOOLEAN :
             analysed = RunTable(n, st, k, a, rev)
    /\ speech_blocks = <<>>
    /\ min_duration \in MinDurations
    /\ rpc = [c \in Callers |-> "idle"]
    /\ rstation = [c \in Callers |-> 1]
    /\ rday = [c \in Callers |-> 0]
    /\ rpending = [c \in Callers |-> <<>>]
    /\ rbefore = [c \in Callers |-> <<>>]

NextBlocks == BuildSpeechBlocks("r1")

SpecBlocks == InitBlocks /\ [][NextBlocks]_vars

\* two requests, each in its own worker thread with its own session
InitRebuildBoth == InitRebuild /\ Len(analysed) <= MaxSharedRecs

NextRebuildBoth == \E c \in Callers : Rebuild(c)

SpecRebuildBoth == InitRebuildBoth /\ [][NextRebuildBoth]_vars

\* ==================================================== the Command Builder
RECURSIVE ShlexRead(_, _)

\* stream_config.get(...) of a key that is missing or null
NoneValue == "None"

\* dict.get(key, default)
Get(dict, key, default) == IF key \in DOMAIN dict THEN dict[key] ELSE default

\* the dict with the keys in keys only
Restrict(dict, keys) == [k \in keys |-> dict[k]]

\* a string as the characters shlex reads one by one
FlagStrings ==
    { <<>>,
      <<"-", "v", "n", " ", "-", "s", "n">>,
      <<"-", "a", "f", " ", "'", "a", " ", "b", "'">>,
      <<"-", "a", "f", " ", "'", "a", " ", "b">> }

\* shlex.split: the state before the first character
ShlexStart == [tokens |-> <<>>, cur |-> "", open |-> FALSE, quote |-> ""]

\* shlex.split, one character: inside quotes everything up to the closing
\* quote belongs to the token; outside, a quote opens, a blank ends the
\* token and anything else is added to it
ShlexChar(st, ch) ==
    IF st.quote # ""
    THEN IF ch = st.quote THEN [st EXCEPT !.quote = ""]
                          ELSE [st EXCEPT !.cur = @ \o ch]
    ELSE IF ch \in {"'", "\""} THEN [st EXCEPT !.quote = ch, !.open = TRUE]
    ELSE IF ch = " "
         THEN IF st.open
              THEN [st EXCEPT !.tokens = Append(@, st.cur),
                              !.cur = "", !.open = FALSE]
              ELSE st
         ELSE [st EXCEPT !.cur = @ \o ch, !.open = TRUE]

\* shlex.split, all characters
ShlexRead(st, chars) ==
    IF chars = <<>> THEN st
    ELSE ShlexRead(ShlexChar(st, Head(chars)), Tail(chars))

\* shlex.split(s): the tokens, or ValueError("No closing quotation")
ShlexSplit(chars) ==
    IF ShlexRead(ShlexStart, chars).quote # ""
    THEN [status |-> "ValueError", tokens |-> <<>>]
    ELSE [status |-> "ok",
          tokens |-> IF ShlexRead(ShlexStart, chars).open
                     THEN Append(ShlexRead(ShlexStart, chars).tokens,
                                 ShlexRead(ShlexStart, chars).cur)
                     ELSE ShlexRead(ShlexStart, chars).tokens]

\* variant: only a missing value counts as empty
FalsyOnlyNone(v) == v = NoneValue

\* "not self.url": None or the empty string
Falsy(v) == v = NoneValue \/ v = ""

\* line 40
Fmt(cfg) == Get(cfg.mandatory_params, "format", "wav")

\* variant: without an override the codec is always pass-through
CodecDefaultsToCopy(cfg) == Get(cfg.optional_params, "codec", "copy")

\* lines 45-46
Codec(cfg) ==
    Get(cfg.optional_params, "codec",
        IF Fmt(cfg) = "wav" THEN "pcm_s16le" ELSE "copy")

\* lines 50-51
BitrateArgs(cfg) ==
    IF /\ "bitrate" \in DOMAIN cfg.optional_params
       /\ cfg.optional_params["bitrate"] # ""
    THEN <<"-b:a", cfg.optional_params["bitrate"]>>
    ELSE <<>>

\* variant: channels and sample rate are always given
AudioArgsAlways(cfg) ==
    <<"-ac", ToString(Get(cfg.mandatory_params, "channels", 1)),
      "-ar", ToString(Get(cfg.mandatory_params, "sample_rate", 16000))>>

\* lines 53-62
AudioArgs(cfg) ==
    IF Codec(cfg) # "copy"
    THEN <<"-ac", ToString(Get(cfg.mandatory_params, "channels", 1)),
           "-ar", ToString(Get(cfg.mandatory_params, "sample_rate", 16000))>>
    ELSE <<>>

\* lines 103-105: the flags as given, empty when there are none
FlagChars(cfg) == Get(cfg.optional_params, "flags", <<>>)

\* line 127
OutputPattern(cfg) ==
    "/data/recordings/" \o cfg.name \o "/%Y/%m/%d/chunk_%Y%m%d%H%M%S."
        \o Fmt(cfg)

\* lines 30-100: the arguments before the extra flags
StandardArgs(cfg) ==
    <<"ffmpeg", "-nostdin", "-y", "-loglevel", "info">>
    \o <<"-i", cfg.url>>
    \o <<"-map", "0:a">>
    \o <<"-segment_format", Fmt(cfg)>>
    \o <<"-c:a", Codec(cfg)>>
    \o BitrateArgs(cfg)
    \o AudioArgs(cfg)
    \o <<"-f", "segment">>
    \o <<"-segment_time",
         ToString(Get(cfg.mandatory_params, "segment_time", ProbedSeconds))>>
    \o <<"-strftime", "1">>
    \o <<"-reset_timestamps", "1">>

\* variant: the extra flags come after the output path
BuildCommandFlagsLast(cfg) ==
    IF Falsy(cfg.url) \/ Falsy(cfg.name)
    THEN [status |-> "ValueError", cmd |-> <<>>]
    ELSE IF ShlexSplit(FlagChars(cfg)).status # "ok"
    THEN [status |-> "ValueError", cmd |-> <<>>]
    ELSE [status |-> "ok",
          cmd |-> StandardArgs(cfg) \o <<OutputPattern(cfg)>>
                    \o ShlexSplit(FlagChars(cfg)).tokens]

\* build_command
BuildCommand(cfg) ==
    IF Falsy(cfg.url) \/ Falsy(cfg.name)
    THEN [status |-> "ValueError", cmd |-> <<>>]
    ELSE IF ShlexSplit(FlagChars(cfg)).status # "ok"
    THEN [status |-> "ValueError", cmd |-> <<>>]
    ELSE [status |-> "ok",
          cmd |-> StandardArgs(cfg) \o ShlexSplit(FlagChars(cfg)).tokens
                    \o <<OutputPattern(cfg)>>]

\* builder = FfmpegBuilder(stream.dict()); cmd = builder.build_command()
Build ==
    /\ built.status = "none"
    /\ built' = BuildCommand(stream_config)
    /\ UNCHANGED <<dbVars, procVars, processes, running, lockVars, pc,
                   passVars, dirVars, stopVars, histVars, watchVars, segVars,
                   stream_config, nameVars>>

\* the rows of table stream the builder can be given
InitBuild ==
    /\ InitManager
    /\ enabled = [s \in Stations |-> TRUE]
    /\ configOk = [s \in Stations |-> TRUE]
    /\ InitWatcher
    /\ InitSegmenter
    /\ \E u \in {NoneValue, "", "http://radio"},
          n \in {NoneValue, "", "radio1"},
          f \in {"wav", "mp3"}, c \in {"copy", "libmp3lame", "pcm_s16le"},
          b \in {"", "128k"}, x \in FlagStrings,
          mk \in SUBSET {"format", "segment_time", "channels", "sample_rate"},
          ok \in SUBSET {"codec", "bitrate", "flags"} :
        stream_config =
            [url |-> u, name |-> n,
             mandatory_params |->
                 Restrict([format |-> f, segment_time |-> 600,
                           channels |-> 2, sample_rate |-> 44100], mk),
             optional_params |->
                 Restrict([codec |-> c, bitrate |-> b, flags |-> x], ok)]
    /\ built = [status |-> "none", cmd |-> <<>>]
    /\ InitNames

NextBuild == Build

SpecBuild == InitBuild /\ [][NextBuild]_vars

\* ====================================================== the output naming
RECURSIVE Strftime(_, _), Split(_, _), Num(_)

\* a string as its characters
Chars(str) ==
    CASE str = "/data/recordings/" ->
           <<"/", "d", "a", "t", "a", "/", "r", "e", "c", "o", "r",
             "d", "i", "n", "g", "s", "/">>
      [] str = "/%Y/%m/%d" ->
           <<"/", "%", "Y", "/", "%", "m", "/", "%", "d">>
      [] str = "/chunk_%Y%m%d%H%M%S." ->
           <<"/", "c", "h", "u", "n", "k", "_", "%", "Y", "%", "m",
             "%", "d", "%", "H", "%", "M", "%", "S", ".">>
      [] str = "radio1" ->
           <<"r", "a", "d", "i", "o", "1">>
      [] str = "my_radio" ->
           <<"m", "y", "_", "r", "a", "d", "i", "o">>
      [] str = "fm.104" ->
           <<"f", "m", ".", "1", "0", "4">>
      [] str = "wav" ->
           <<"w", "a", "v">>
      [] str = "mp3" ->
           <<"m", "p", "3">>
      [] str = "flac" ->
           <<"f", "l", "a", "c">>
      [] str = ".wav" ->
           <<".", "w", "a", "v">>
      [] str = ".mp3" ->
           <<".", "m", "p", "3">>
      [] str = "%Y%m%d%H%M%S" ->
           <<"%", "Y", "%", "m", "%", "d", "%", "H", "%", "M", "%",
             "S">>

\* the names a station can have and the container formats it can be given
StationNames == {"radio1", "my_radio", "fm.104"}
Formats == {"wav", "mp3", "flac"}

\* the number of days of a month
DaysIn(y, m) ==
    IF m = 2 THEN (IF y % 4 = 0 THEN 29 ELSE 28)
    ELSE IF m \in {4, 6, 9, 11} THEN 30 ELSE 31

\* the instants the clock can show
Instants ==
    { t \in [Y : {2023, 2024}, m : {1, 2, 12}, d : {1, 28, 29, 31},
             H : {0, 23}, M : {5}, S : {0, 59}] : t.d <= DaysIn(t.Y, t.m) }

\* d + timedelta(days=1)
Tomorrow(t) ==
    IF t.d < DaysIn(t.Y, t.m) THEN [t EXCEPT !.d = t.d + 1]
    ELSE IF t.m < 12 THEN [t EXCEPT !.m = t.m + 1, !.d = 1]
    ELSE [t EXCEPT !.Y = t.Y + 1, !.m = 1, !.d = 1]

\* a number as decimal digits, zero-padded to two and to four places
Pad2(n) == <<ToString((n \div 10) % 10), ToString(n % 10)>>
Pad4(n) == Pad2(n \div 100) \o Pad2(n % 100)

\* strftime, one conversion
Conversion(ch, t) ==
    CASE ch = "Y" -> Pad4(t.Y)
      [] ch = "m" -> Pad2(t.m)
      [] ch = "d" -> Pad2(t.d)
      [] ch = "H" -> Pad2(t.H)
      [] ch = "M" -> Pad2(t.M)
      [] ch = "S" -> Pad2(t.S)
      [] OTHER -> <<"%", ch>>

\* strftime(format, t): conversions replaced, every other character kept
Strftime(fmt, t) ==
    IF fmt = <<>> THEN <<>>
    ELSE IF Head(fmt) = "%" /\ Len(fmt) >= 2
         THEN Conversion(fmt[2], t) \o Strftime(SubSeq(fmt, 3, Len(fmt)), t)
         ELSE <<Head(fmt)>> \o Strftime(Tail(fmt), t)

\* the position of the last occurrence of a character, 0 when there is none
LastIndexOf(str, ch) ==
    IF \E i \in 1..Len(str) : str[i] = ch
    THEN CHOOSE i \in 1..Len(str) :
            str[i] = ch /\ \A j \in i + 1..Len(str) : str[j] # ch
    ELSE 0

\* the directory a path lies in and the name of the file, as os.walk
\* gives them
DirPart(path) == SubSeq(path, 1, LastIndexOf(path, "/") - 1)
Basename(path) == SubSeq(path, LastIndexOf(path, "/") + 1, Len(path))

\* str.split(sep)
Split(str, sep) ==
    IF \A i \in 1..Len(str) : str[i] # sep THEN <<str>>
    ELSE LET i == CHOOSE k \in 1..Len(str) :
                     str[k] = sep /\ \A j \in 1..k - 1 : str[j] # sep
         IN  <<SubSeq(str, 1, i - 1)>>
                \o Split(SubSeq(str, i + 1, Len(str)), sep)

\* str.endswith(suffix)
EndsWith(str, suffix) ==
    /\ Len(str) >= Len(suffix)
    /\ SubSeq(str, Len(str) - Len(suffix) + 1, Len(str)) = suffix

\* decimal digits as a number
IsDigit(ch) == \E n \in 0..9 : ToString(n) = ch
DigitValue(ch) == CHOOSE n \in 0..9 : ToString(n) = ch
Num(digits) ==
    IF digits = <<>> THEN 0
    ELSE 10 * Num(SubSeq(digits, 1, Len(digits) - 1))
            + DigitValue(digits[Len(digits)])

\* datetime.strptime(ts_str, "%Y%m%d%H%M%S") for a string of fourteen
\* characters; a string that is not a date raises ValueError
Strptime(str) ==
    IF /\ Len(str) = Len(Strftime(Chars("%Y%m%d%H%M%S"), NoTime))
       /\ \A i \in 1..Len(str) : IsDigit(str[i])
    THEN LET t == [Y |-> Num(SubSeq(str, 1, 4)), m |-> Num(SubSeq(str, 5, 6)),
                   d |-> Num(SubSeq(str, 7, 8)), H |-> Num(SubSeq(str, 9, 10)),
                   M |-> Num(SubSeq(str, 11, 12)),
                   S |-> Num(SubSeq(str, 13, 14))]
         IN  IF /\ t.m \in 1..12 /\ t.d \in 1..DaysIn(t.Y, t.m)
                /\ t.H \in 0..23 /\ t.M \in 0..59 /\ t.S \in 0..61
             THEN [status |-> "ok", ts |-> t]
             ELSE [status |-> "ValueError", ts |-> NoTime]
    ELSE [status |-> "ValueError", ts |-> NoTime]

\* ffmpeg_builder.py line 127, as characters
OutputPatternChars(cfg) ==
    Chars("/data/recordings/") \o Chars(cfg.name) \o Chars("/%Y/%m/%d")
        \o Chars("/chunk_%Y%m%d%H%M%S.") \o Chars(Fmt(cfg))

\* stream_manager.py lines 63 and 82: f"{base}/%Y/%m/%d"
DirectoryPattern(cfg) ==
    Chars("/data/recordings/") \o Chars(cfg.name) \o Chars("/%Y/%m/%d")

\* for days_delta in [0, 1]: today and tomorrow
DatesCreated(t) == {t, Tomorrow(t)}

\* ensure_directories, for this station: os.makedirs of the date directory
\* of today and of tomorrow
EnsureDateDirs ==
    /\ made = {}
    /\ made' = { Strftime(DirectoryPattern(stream_config), t) :
                    t \in DatesCreated(now) }
    /\ UNCHANGED <<dbVars, procVars, processes, running, lockVars, pc,
                   passVars, dirVars, stopVars, histVars, watchVars, segVars,
                   stream_config, built, now, segment, parsed>>

\* the capture process, started after the directories were made, opens a
\* segment today or tomorrow: with -strftime 1 it expands the output
\* template with the time the segment starts at
WriteSegment(t) ==
    /\ made # {}
    /\ segment.path = <<>>
    /\ segment' = [path |-> Strftime(OutputPatternChars(stream_config), t),
                   at |-> t]
    /\ UNCHANGED <<dbVars, procVars, processes, running, lockVars, pc,
                   passVars, dirVars, stopVars, histVars, watchVars, segVars,
                   stream_config, built, now, made, parsed>>

\* watcher.py lines 74-75
ParseName(file) ==
    IF Len(Split(file, "_")) < 2
    THEN [status |-> "IndexError", ts |-> NoTime]
    ELSE Strptime(Split(Split(file, "_")[2], ".")[1])

\* scan_files for the segment, new and stable: passed over unless its name
\* ends in .wav or .mp3 (line 50), else its start time is parsed
ScanSegment ==
    /\ segment.path # <<>>
    /\ parsed.status = "none"
    /\ parsed' =
          IF \/ EndsWith(Basename(segment.path), Chars(".wav"))
             \/ EndsWith(Basename(segment.path), Chars(".mp3"))
          THEN ParseName(Basename(segment.path))
          ELSE [status |-> "skipped", ts |-> NoTime]
    /\ UNCHANGED <<dbVars, procVars, processes, running, lockVars, pc,
                   passVars, dirVars, stopVars, histVars, watchVars, segVars,
                   stream_config, built, now, made, segment>>

\* any station name and format, at any instant
InitNaming ==
    /\ InitManager
    /\ enabled = [s \in Stations |-> TRUE]
    /\ configOk = [s \in Stations |-> TRUE]
    /\ InitWatcher
    /\ InitSegmenter
    /\ \E n \in StationNames, f \in Formats, withFormat \in BOOLEAN :
          stream_config =
              [url |-> "http://radio", name |-> n,
               mandatory_params |->
                   IF withFormat THEN [format |-> f] ELSE <<>>,
               optional_params |-> <<>>]
    /\ built = [status |-> "none", cmd |-> <<>>]
    /\ now \in Instants
    /\ made = {}
    /\ segment = [path |-> <<>>, at |-> NoTime]
    /\ parsed = [status |-> "none", ts |-> NoTime]

NextNaming ==
    \/ EnsureDateDirs
    \/ \E t \in {now, Tomorrow(now)} : WriteSegment(t)
    \/ ScanSegment

SpecNaming == InitNaming /\ [][NextNaming]_vars

\* ================================================== the three components
\* what the supervisor keeps in memory and on the host
managerVars == <<procVars, processes, running, lockVars, pc, passVars,
                 dirVars, stopVars>>

\* what a rebuild request keeps in memory
rebuildVars == <<rpc, rstation, rday, rpending>>

\* the supervisor over a store with recordings and blocks, or a rebuild
\* over a store with streams
InitComponents == Init \/ InitRebuildBoth

\* every station has a url and a name
AllValid == \A s \in Stations : configOk[s]

\* the components one at a time: each runs while the other two are as
\* constructed; the watcher and the segmenter, which do not read the capture
\* parameters, run over valid ones
NextComponents ==
    \/ InitWatcher /\ InitSegmenter /\ Next
    \/ InitManager /\ AllValid /\ InitSegmenter /\ NextWatch
    \/ InitManager /\ AllValid /\ InitWatcher /\ NextRebuild

SpecComponents == InitComponents /\ [][NextComponents]_vars

\* the component that runs keeps taking the steps of its loop
FairSpecComponents == SpecComponents /\ Fairness /\ FairnessWatch

\* ------------------------------------------------------------------- typing
TypeOK ==
    /\ exists \in [Stations -> BOOLEAN]
    /\ enabled \in [Stations -> BOOLEAN]
    /\ current_status \in [Stations -> {"stopped", "running", "error"}]
    /\ last_error \in [Stations -> {"none", "invalid", "launch", "exited"}]
    /\ last_up \in [Stations -> Procs \cup {0}]
    /\ events \in [Stations -> 0..MaxEvents]
    /\ configOk \in [Stations -> BOOLEAN]
    /\ procState \in [Procs -> {"free", "alive", "exited"}]
    /\ procStation \in [Procs -> Stations \cup {0}]
    /\ sigterm \in [Procs -> {"none", "obeyed", "ignored"}]
    /\ processes \in [Stations -> Procs \cup {0}]
    /\ running \in BOOLEAN
    /\ lockHolder \in Loops \cup {"free", "stop"}
    /\ pc \in [Loops -> {"unstarted", "ready", "waitLock", "iter", "caught",
                         "awaitSpawn", "awaitStop", "ended"}]
    /\ snap \in [Stations -> {"absent", "en", "dis"}]
    /\ idx \in 1..(NumStations + 1)
    /\ waited \in {0, GracePeriod}
    /\ dirs \in [Stations -> SUBSET Days]
    /\ iterated \in BOOLEAN
    /\ spc \in {"notcalled", "waitLock", "sweep", "sweepWait", "returned"}
    /\ sweepTodo \subseteq Stations
    /\ sweepCur \in Stations \cup {0}
    /\ \A s \in Stations : Tracked(s) => procState[processes[s]] # "free"
    /\ onDisk \in [Files -> BOOLEAN]
    /\ age \in [Files -> {0, StabilityWindow - 1, StabilityWindow}]
    /\ \A f \in Files :
         /\ Len(recording[f]) <= MaxRows
         /\ \A i \in 1..Len(recording[f]) :
              /\ recording[f][i].start_ts \in Timestamps
              /\ recording[f][i].duration_seconds \in {0, ProbedSeconds}
              /\ recording[f][i].status = "completed"
    /\ wpc \in [Watchers -> {"off", "sleep", "caught", "walk", "probe",
                             "insert"}]
    /\ wstreams \in [Watchers -> SUBSET Stations]
    /\ wnext \in [Watchers -> 1..(NumStations + 1)]
    /\ wfiles \in [Watchers -> SUBSET Files]
    /\ wcur \in [Watchers -> Files \cup {0}]
    /\ wdur \in [Watchers -> {0, ProbedSeconds}]
    /\ wprobe \in [Watchers -> {"none", "ok", "failed"}]
    /\ wlog \in [Watchers -> [Files -> {"none", "listed", "ext", "known",
                                        "fresh", "staterr", "parseerr",
                                        "inserterr", "registered"}]]
    /\ Len(analysed) <= MaxRecs \/ Len(analysed) <= MaxRun
    /\ OrderedByStart(analysed)
    /\ \A i \in 1..Len(analysed) :
          /\ analysed[i].id \in 1..Len(analysed)
          /\ analysed[i].stream_id \in Stations
          /\ analysed[i].end_ts = NoEnd
                \/ analysed[i].end_ts >= analysed[i].start_ts
    /\ \A i, j \in 1..Len(analysed) :
          analysed[i].id = analysed[j].id => i = j
    /\ \A i \in 1..Len(speech_blocks) :
          /\ speech_blocks[i].stream_id \in Stations
          /\ speech_blocks[i].duration_seconds >= 0
    /\ built.status \in {"none", "ok", "ValueError"}
    /\ built.status # "ok" => built.cmd = <<>>
    /\ DOMAIN stream_config.mandatory_params
          \subseteq {"format", "segment_time", "channels", "sample_rate"}
    /\ DOMAIN stream_config.optional_params
          \subseteq {"codec", "bitrate", "flags"}
    /\ now \in Instants \cup {[NoTime EXCEPT !.Y = 2023, !.m = 1, !.d = 1,
                                               !.H = 12]}
    /\ \A dir \in made : dir = DirPart(dir \o <<"/">>)
    /\ segment.at \in {NoTime, now, Tomorrow(now)}
    /\ parsed.status \in {"none", "skipped", "ok", "ValueError", "IndexError"}
    /\ parsed.status # "ok" => parsed.ts = NoTime
    /\ rpc \in [Callers -> {"idle", "called", "deleted", "computed",
                            "committed", "done", "failed"}]
    /\ min_duration \in MinDurations
    /\ rstation \in [Callers -> Stations]
    /\ rday \in [Callers -> Dates]
    /\ \A c \in Callers : Len(rpending[c]) <= Len(analysed)
    /\ \A c \in Callers : Len(rbefore[c]) <= Len(analysed) + 2

\* processes of station s that are running
Running(s) == {p \in Procs : procState[p] = "alive" /\ procStation[p] = s}

\* ===================================================================== C1
\* C1 as stated: when a pass that saw station s enabled has visited every
\* row, the table tracks a live process for s.
C1_EnabledTrackedLive ==
    \A l \in Loops : PassDone(l) =>
        \A s \in Stations : snap[s] = "en" =>
            Tracked(s) /\ ReturncodeNone(processes[s])

\* C1 amended: when a pass that saw station s enabled has visited every row,
\* the table holds one handle for s, of a process launched for s, exactly when
\* the pass launched it or found its tracked process still running; it holds
\* none when the launch failed or the pass found the tracked process exited
\* (that pass clears the entry and a later pass respawns).  No other process
\* of s is running.
C1_EnabledTrackedUnlessFailed ==
    \A l \in Loops : PassDone(l) =>
        \A s \in Stations : snap[s] = "en" =>
            /\ passLog[s] \in {"spawned", "keep", "launchfail", "failure"}
            /\ Tracked(s) <=> passLog[s] \in {"spawned", "keep"}
            /\ Tracked(s) => procStation[processes[s]] = s
            /\ Running(s) \subseteq {processes[s]}

C1_Witness ==
    \E l \in Loops : PassDone(l) /\
        \E s \in Stations :
            /\ snap[s] = "en" /\ passLog[s] = "spawned"
            /\ Tracked(s) /\ ReturncodeNone(processes[s])

\* ===================================================================== C2
\* C2: when a pass that saw station s disabled has visited every row, no
\* process is tracked for s, none of s is running, and if s was tracked when
\* the pass reached it (the pass ran stop_stream) its row, if it still
\* exists, has current_status "stopped".
C2_DisabledUntrackedStopped ==
    \A l \in Loops : PassDone(l) =>
        \A s \in Stations : snap[s] = "dis" =>
            /\ ~Tracked(s)
            /\ Running(s) = {}
            /\ passLog[s] \in {"stopped", "killed", "idle"}
            /\ (passLog[s] \in {"stopped", "killed"} /\ exists[s])
                   => current_status[s] = "stopped"

C2_Witness ==
    \E l \in Loops : PassDone(l) /\
        \E s \in Stations :
            /\ snap[s] = "dis" /\ passLog[s] \in {"stopped", "killed"}
            /\ exists[s] /\ current_status[s] = "stopped"

\* ===================================================================== C3
\* C3 as stated: when a pass that began after station s was deleted has
\* visited every row, no process is tracked for s.
C3_DeletedUntracked ==
    \A l \in Loops : PassDone(l) =>
        \A s \in Stations : snap[s] = "absent" => ~Tracked(s)

\* ===================================================================== C4
\* C4: from the moment a pass has handled the exit of station s's tracked
\* process until that pass ends, s has no entry in the table (no replacement
\* is spawned by that pass) and its row, if it exists, has status "error"
\* with last_error set.
C4_FailureClearsNoRespawn ==
    \A s \in Stations : passLog[s] = "failure" =>
        /\ ~Tracked(s)
        /\ exists[s] => /\ current_status[s] = "error"
                        /\ last_error[s] = "exited"

C4_Witness ==
    \E l \in Loops : PassDone(l) /\
        \E s \in Stations : passLog[s] = "failure" /\ exists[s]

\* ===================================================================== C5
\* C5: while a pass is in flight that began with every enabled row tracked
\* and running and no disabled row tracked, no step changes the table, a
\* row's status fields, or any process (none launched, signalled or killed).
C5_NoOpWhenMatched ==
    [][(matched /\ \E l \in Loops : InPass(l)) =>
          /\ processes' = processes
          /\ current_status' = current_status
          /\ last_error' = last_error
          /\ procVars' = procVars]_vars

C5_Witness ==
    \E l \in Loops : PassDone(l) /\ matched /\
        \E s \in Stations : snap[s] = "en" /\ passLog[s] = "keep"

\* ===================================================================== C6
\* C6: at most one task is inside "async with self._lock" (a pass of either
\* monitor loop, suspended or not, or the shutdown sweep).
C6_MutualExclusion ==
    Cardinality({l \in Loops : InPass(l)}) + (IF InSweep THEN 1 ELSE 0) <= 1

\* a pass is suspended in an await while the other loop and stop() both wait
C6_Witness ==
    \E l \in Loops :
        /\ pc[l] \in {"awaitSpawn", "awaitStop"}
        /\ \E k \in Loops \ {l} : pc[k] = "waitLock"
        /\ spc = "waitLock"

\* ===================================================================== C7
\* C7 as stated: once stop() has returned, the table is empty and no process
\* the manager launched is running.
C7_StopLeavesNothing ==
    spc = "returned" =>
        /\ \A s \in Stations : ~Tracked(s)
        /\ \A p \in Procs : procState[p] # "alive"

\* ===================================================================== C8
\* C8: a process is launched only before stop() has returned, and only by a
\* pass whose call of reconcile_streams was made before stop() was called.
C8_NoSpawnAfterStop ==
    [][(\E p \in Procs : procState[p] = "free" /\ procState'[p] = "alive") =>
          /\ spc # "returned"
          /\ \A l \in Loops : pc[l] = "awaitSpawn" => ~lateStart[l]]_vars

\* stop() returned and a monitor loop found self.running False and ended
C8_Witness ==
    /\ spc = "returned"
    /\ \E l \in Loops : pc[l] = "ended"
    /\ \E s \in Stations : exists[s] /\ enabled[s]

\* ===================================================================== C9
\* C9 as stated: stop(), once called, eventually returns, whatever the
\* tracked processes do with SIGTERM.
C9_StopReturns == (spc # "notcalled") ~> (spc = "returned")

\* ===================================================================== C10
\* C10: stop_stream on a tracked running process sends SIGTERM before it
\* waits; it leaves the wait with the process still running only when the
\* grace period has elapsed, and then kills it; it kills in no other case;
\* it ends with the entry removed and the row, if it exists, "stopped".
\* A disabled row without entry is passed over with no change.
C10_StopStream ==
    [][\A l \in Loops :
          /\ (pc[l] = "iter" /\ pc'[l] = "awaitStop")
                => sigterm'[processes[idx]] # "none"
          /\ (pc[l] = "awaitStop" /\ pc'[l] # "awaitStop") =>
                /\ sigterm[processes[idx]] # "none"
                /\ processes'[idx] = 0
                /\ exists'[idx] => current_status'[idx] = "stopped"
                /\ procState'[processes[idx]] = "free"
                /\ (procState[processes[idx]] = "alive")
                       <=> (passLog'[idx] = "killed")
                /\ passLog'[idx] = "killed" => waited = GracePeriod
          /\ (pc[l] = "iter" /\ idx \in Stations /\ snap[idx] = "dis"
                /\ ~Tracked(idx))
                => /\ processes' = processes
                   /\ dbVars' = dbVars
                   /\ procVars' = procVars]_vars

C10_Witness ==
    \E l \in Loops : \E s \in Stations :
        /\ InPass(l) /\ passLog[s] = "killed"
        /\ exists[s] /\ current_status[s] = "stopped"

\* ===================================================================== C11
\* C11: from the moment start_stream has failed for station s until that
\* pass ends, s has no entry in the table and its row, if it exists, has
\* status "error" with last_error holding the message of the failure (the
\* builder's for an empty url or name, the launch's otherwise).  The builder
\* fails before the launch: create_subprocess_exec is never awaited for a
\* station with an empty url or name, and no process of such a station
\* exists.
C11_SpawnFailure ==
    /\ \A s \in Stations : passLog[s] = "launchfail" =>
          /\ ~Tracked(s)
          /\ exists[s] =>
                /\ current_status[s] = "error"
                /\ last_error[s] = IF configOk[s] THEN "launch" ELSE "invalid"
    /\ \A l \in Loops : pc[l] = "awaitSpawn" => configOk[idx]
    /\ \A p \in Procs : procStation[p] # 0 => configOk[procStation[p]]

\* one pass saw a validation failure and a failed launch
C11_Witness ==
    \E l \in Loops : PassDone(l) /\
        \E s, t \in Stations :
            /\ passLog[s] = "launchfail" /\ ~configOk[s]
            /\ exists[s] /\ last_error[s] = "invalid"
            /\ passLog[t] = "launchfail" /\ configOk[t]
            /\ exists[t] /\ last_error[t] = "launch"

\* ===================================================================== C12
\* C12: when a pass in which start_stream failed or an exit was detected for
\* station s has visited every row, every other row was reconciled in that
\* pass: a station seen enabled was kept, handled as failed, or given to
\* start_stream (and is tracked if its own launch succeeded); a station seen
\* disabled has no entry.
C12_FailureDoesNotBlock ==
    \A l \in Loops : PassDone(l) =>
        \A s \in Stations : passLog[s] \in {"launchfail", "failure"} =>
            \A t \in Stations \ {s} :
                /\ passLog[t] # "none"
                /\ snap[t] = "en" =>
                      /\ passLog[t] \in {"spawned", "launchfail", "keep",
                                         "failure"}
                      /\ passLog[t] = "spawned" => Tracked(t)
                /\ snap[t] = "dis" =>
                      /\ passLog[t] \in {"stopped", "killed", "idle"}
                      /\ ~Tracked(t)

\* a later row was spawned or stopped after an earlier row had failed
C12_Witness ==
    \E l \in Loops : PassDone(l) /\
        \E s, t \in Stations :
            /\ s < t
            /\ passLog[s] \in {"launchfail", "failure"}
            /\ passLog[t] \in {"spawned", "stopped", "killed"}

\* ===================================================================== C13
\* an iteration of monitor_loop ends in this step
IterationEnds ==
    /\ iterated'
    /\ ~iterated \/ \E l \in Loops : pc[l] # "ready" /\ pc'[l] = "ready"

\* C13 as stated: every iteration of monitor_loop, also one whose pass
\* raised, ends with the directories for today and tomorrow in place for
\* every enabled station, and whenever a capture process of an enabled
\* station is running, today's directory of that station exists.
C13_DirsBeforeNeeded ==
    [][/\ IterationEnds =>
             \A s \in Stations : (exists'[s] /\ enabled'[s]) => dirs'[s] = Days
       /\ \A s \in Stations :
             (exists'[s] /\ enabled'[s] /\ Running(s)' # {}) => 0 \in dirs'[s]
      ]_vars

\* table recording holds a row with this path
Registered(f) == Len(recording[f]) > 0

\* ===================================================================== C14
\* C14: with one watcher process, a path that has a row in table recording
\* never gets another one, however many scans follow: no step changes the
\* rows of a path that already has one.
C14_NoReRegistration ==
    [][\A f \in Files : Registered(f) => recording'[f] = recording[f]]_vars

\* a later scan came upon a registered path and passed it over
C14_Witness ==
    \E w \in Watchers : \E f \in Files :
        wlog[w][f] = "known" /\ Len(recording[f]) = 1

\* ===================================================================== C15
\* C15 as stated: with the watcher of the API process and the watcher of
\* the standalone process both scanning, no two rows of table recording
\* have the same path.
C15_PathUnique == \A f \in Files : Len(recording[f]) <= 1

\* ===================================================================== C16
\* C16: a file is taken into processing (probed, parsed, inserted) only if,
\* at the moment os.stat looked at it, its last modification was at least
\* StabilityWindow seconds old; rows are inserted only for the file in
\* processing; a file passed over as too fresh gets no row in that step; and
\* every walk of a station lists all files present, whatever earlier scans
\* did with them.
C16_StabilityWindow ==
    [][\A w \in Watchers :
          /\ \A f \in Files :
                /\ (wcur[w] # f /\ wcur'[w] = f) => age[f] >= StabilityWindow
                /\ (wlog[w][f] # "fresh" /\ wlog'[w][f] = "fresh") =>
                      /\ age[f] < StabilityWindow
                      /\ recording' = recording
                /\ recording'[f] # recording[f] =>
                      \E v \in Watchers : wpc[v] = "insert" /\ wcur[v] = f
          /\ (wnext'[w] = wnext[w] + 1 /\ wnext[w] \in wstreams[w]) =>
                wfiles'[w] = {f \in Files : onDisk[f]
                                             /\ StationOf(f) = wnext[w]}
      ]_vars

\* a scan passed a file over as too fresh and registered another one
C16_Witness ==
    \E w \in Watchers : \E f, g \in Files :
        /\ wlog[w][f] = "fresh" /\ ~Registered(f)
        /\ wlog[w][g] = "registered"

\* ===================================================================== C17
\* C17 as stated: a file the capture command wrote under the tree of an
\* enabled station, once stable, eventually has a row in table recording,
\* unless it is written to again or the store or os.stat failed on it.
C17_EventuallyRegistered ==
    \A f \in Files :
        (/\ onDisk[f] /\ CaptureWritten(f)
         /\ exists[StationOf(f)] /\ enabled[StationOf(f)]
         /\ age[f] = StabilityWindow
         /\ wpc["api"] # "off")
        ~> (\/ Registered(f)
            \/ age[f] < StabilityWindow
            \/ \E w \in Watchers : wlog[w][f] \in {"staterr", "inserterr"})

C19_ProbeFailureRegisters ==
    [][\A w \in Watchers :
          /\ (wpc[w] = "probe" /\ wpc'[w] # "probe") => wpc'[w] = "insert"
          /\ (wpc[w] = "insert" /\ wpc'[w] # "insert"
                /\ wprobe[w] = "failed" /\ ParseOk(wcur[w])) =>
                /\ wlog'[w][wcur[w]] \in {"registered", "inserterr"}
                /\ wlog'[w][wcur[w]] = "registered" =>
                      recording'[wcur[w]] =
                          Append(recording[wcur[w]],
                                 [start_ts |-> ParseStart(wcur[w]),
                                  duration_seconds |-> 0,
                                  status |-> "completed"])
      ]_vars

C19_Witness ==
    \E f \in Files :
        /\ Registered(f)
        /\ recording[f][1].duration_seconds = 0
        /\ recording[f][1].status = "completed"


\* ===================================================================== C20
\* C20: a rebuild for (station, date) is all-or-nothing: when the call has
\* failed, at whatever point after it started, the blocks stored for that
\* (station, date) are exactly the blocks stored when the call was made,
\* never none-because-deleted and never the new set
C20_RebuildAllOrNothing ==
    \A c \in Callers :
        rpc[c] = "failed" =>
            StoredFor(rstation[c], rday[c]) = rbefore[c]


\* ===================================================================== C21
\* no two rows of a table of blocks are the same block
NoBlockTwice(blks) ==
    \A i, j \in 1..Len(blks) : blks[i] = blks[j] => i = j

\* C21: with the recordings unchanged and one call after the other, every
\* call that has committed, the first as well as one made over the result of
\* an earlier call, leaves for its (station, date) exactly the blocks one
\* call computes (start, end, duration, member ids, text), none stored twice
C21_RebuildIdempotent ==
    \A c \in Callers :
        rpc[c] \in {"committed", "done"} =>
            /\ StoredFor(rstation[c], rday[c]) =
                   BuildBlocks(Recordings(rstation[c], rday[c]), rstation[c])
            /\ NoBlockTwice(StoredFor(rstation[c], rday[c]))

\* a second call has committed over the non-empty result of a first call
C21_Witness ==
    /\ rpc["r1"] = "done"
    /\ rbefore["r1"] # <<>>
    /\ rbefore["r1"] =
          BuildBlocks(Recordings(rstation["r1"], rday["r1"]), rstation["r1"])
    /\ StoredFor(rstation["r1"], rday["r1"]) = rbefore["r1"]


\* ===================================================================== C22
\* C22: however two rebuilds of the same (station, date) over unchanged
\* recordings interleave, once both have returned the blocks stored for that
\* (station, date) are the blocks of one rebuild, none of them twice
C22_ConcurrentRebuilds ==
    \A c1, c2 \in Callers :
        (/\ c1 # c2
         /\ rpc[c1] = "done" /\ rpc[c2] = "done"
         /\ rstation[c1] = rstation[c2] /\ rday[c1] = rday[c2]) =>
            /\ StoredFor(rstation[c1], rday[c1]) =
                   BuildBlocks(Recordings(rstation[c1], rday[c1]),
                               rstation[c1])
            /\ NoBlockTwice(StoredFor(rstation[c1], rday[c1]))


\* ===================================================================== C23
\* the blocks in the order the call returns them
Returned(c) == rpending[c]

\* C23: whatever the recordings of the (station, day), the blocks a rebuild
\* returns are in ascending order of start and no two of them overlap in time
C23_BlocksDisjointOrdered ==
    \A c \in Callers :
        rpc[c] = "done" =>
            \A i, j \in 1..Len(Returned(c)) :
                i < j =>
                    /\ Returned(c)[i].start_ts <= Returned(c)[j].start_ts
                    /\ Returned(c)[i].end_ts <= Returned(c)[j].start_ts


\* ===================================================================== C24
\* the latest effective end among the first i recordings
LatestEnd(recs, i) ==
    CHOOSE e \in { CalcEnd(recs[j]) : j \in 1..i } :
        \A j \in 1..i : CalcEnd(recs[j]) <= e

\* the recordings are one contiguous speech run: all speech, each starting
\* no later than gap_threshold after the latest end before it
OneRun(recs) ==
    /\ recs # <<>>
    /\ \A i \in 1..Len(recs) : recs[i].classification = "speech"
    /\ \A i \in 2..Len(recs) :
          recs[i].start_ts - LatestEnd(recs, i - 1) <= GapThreshold

RunSpan(recs) == LatestEnd(recs, Len(recs)) - recs[1].start_ts

\* the ids of the recordings that are members of some block
Members(blks) ==
    UNION { { blks[i].chunk_ids[k] : k \in 1..Len(blks[i].chunk_ids) } :
            i \in 1..Len(blks) }

\* C24: every block a rebuild returns or stores has duration = end - start
\* and at least min_duration, and a contiguous speech run whose span is
\* below min_duration gives no block
C24_DurationAtLeastMin ==
    \A c \in Callers :
        rpc[c] = "done" =>
            /\ \A i \in 1..Len(Returned(c)) :
                  /\ Returned(c)[i].duration_seconds =
                        Returned(c)[i].end_ts - Returned(c)[i].start_ts
                  /\ Returned(c)[i].duration_seconds >= min_duration
            /\ StoredFor(rstation[c], rday[c]) = Returned(c)
            /\ (OneRun(analysed) /\ RunSpan(analysed) < min_duration) =>
                  Returned(c) = <<>>

\* a speech run of 30 s gave no block and the run after it, of exactly
\* min_duration, gave one
C24_Witness ==
    /\ rpc["r1"] = "done"
    /\ Len(analysed) = 2
    /\ OneRun(<<analysed[1]>>)
    /\ RunSpan(<<analysed[1]>>) = 30
    /\ analysed[2].classification = "speech"
    /\ Len(Returned("r1")) = 1
    /\ min_duration = MinDuration
    /\ Returned("r1")[1].duration_seconds = MinDuration
    /\ Members(Returned("r1")) = {analysed[2].id}


\* ===================================================================== C25
\* the locals after the first i turns of the loop over recs
After(recs, i, s) == LoopOver(NoBlockOpen, SubSeq(recs, 1, i), s)

\* the rule for the speech recording rec met with the block of acc open,
\* next being the locals after the turn
AbsorbOrSplit(acc, rec, next) ==
    IF rec.start_ts - acc.block_end <= GapThreshold
    THEN /\ next.ids = Append(acc.ids, rec.id)
         /\ next.block_start = acc.block_start
         /\ next.block_end >= acc.block_end
         /\ next.block_end >= CalcEnd(rec)
         /\ next.block_end \in {acc.block_end, CalcEnd(rec)}
         /\ next.blocks = acc.blocks
    ELSE /\ next.ids = <<rec.id>>
         /\ next.block_start = rec.start_ts
         /\ next.block_end = CalcEnd(rec)
         /\ IF acc.block_end - acc.block_start < min_duration
            THEN next.blocks = acc.blocks
            ELSE /\ Len(next.blocks) = Len(acc.blocks) + 1
                 /\ SubSeq(next.blocks, 1, Len(acc.blocks)) = acc.blocks
                 /\ next.blocks[Len(next.blocks)].start_ts = acc.block_start
                 /\ next.blocks[Len(next.blocks)].end_ts = acc.block_end
                 /\ next.blocks[Len(next.blocks)].chunk_ids = acc.ids

\* C25: in every turn of the pass that meets a speech recording with a block
\* open, the recording is absorbed exactly when its start minus the block's
\* end is at most gap_threshold, the end becoming the later of the two ends;
\* otherwise the open block is finalized and a new one starts with the
\* recording. So one contiguous speech run of at least min_duration gives one
\* block from the first start to the latest end with all ids in order
C25_AbsorbWithinThreshold ==
    \A c \in Callers :
        rpc[c] = "done" =>
            /\ \A i \in 1..Len(analysed) - 1 :
                  (/\ analysed[i + 1].classification = "speech"
                   /\ After(analysed, i, rstation[c]).ids # <<>>) =>
                      AbsorbOrSplit(After(analysed, i, rstation[c]),
                                    analysed[i + 1],
                                    After(analysed, i + 1, rstation[c]))
            /\ (OneRun(analysed) /\ RunSpan(analysed) >= min_duration) =>
                  /\ Len(Returned(c)) = 1
                  /\ Returned(c)[1].start_ts = analysed[1].start_ts
                  /\ Returned(c)[1].end_ts =
                        LatestEnd(analysed, Len(analysed))
                  /\ Returned(c)[1].chunk_ids =
                        [i \in 1..Len(analysed) |-> analysed[i].id]

\* three speech recordings, the second starting exactly gap_threshold after
\* the end of the first, are one block whose ids are not in ascending order
C25_Witness ==
    /\ rpc["r1"] = "done"
    /\ Len(analysed) = 3
    /\ OneRun(analysed)
    /\ analysed[2].start_ts - CalcEnd(analysed[1]) = GapThreshold
    /\ Len(Returned("r1")) = 1
    /\ Returned("r1")[1].chunk_ids = <<3, 2, 1>>
    /\ Returned("r1")[1].end_ts > CalcEnd(analysed[3])


\* ===================================================================== C26
\* C26: a recording whose classification is not "speech" (music, none) is a
\* member of no block, and two speech recordings with such a recording
\* between them in the order of the pass are never members of the same block,
\* whatever the gap between them
C26_NonSpeechCloses ==
    \A c \in Callers :
        rpc[c] = "done" =>
            /\ \A i \in 1..Len(analysed) :
                  analysed[i].classification # "speech" =>
                      analysed[i].id \notin Members(Returned(c))
            /\ \A i, j, k \in 1..Len(analysed) :
                  (/\ i < j /\ j < k
                   /\ analysed[i].classification = "speech"
                   /\ analysed[j].classification # "speech"
                   /\ analysed[k].classification = "speech") =>
                      \A n \in 1..Len(Returned(c)) :
                          ~(/\ analysed[i].id \in Members(<<Returned(c)[n]>>)
                            /\ analysed[k].id \in Members(<<Returned(c)[n]>>))

\* two speech recordings that overlap in time, an unclassified recording
\* between them: two blocks
C26_Witness ==
    /\ rpc["r1"] = "done"
    /\ Len(analysed) = 3
    /\ analysed[1].classification = "speech"
    /\ analysed[2].classification = "NULL"
    /\ analysed[3].classification = "speech"
    /\ analysed[3].start_ts < CalcEnd(analysed[1])
    /\ Len(Returned("r1")) = 2
    /\ Members(Returned("r1")) = {analysed[1].id, analysed[3].id}


\* ===================================================================== C27
\* C27: the components write disjoint parts of the store.  A step of the
\* supervisor changes no column of a stream other than its status fields and
\* no recording or block; a step of the watcher changes no stream and no
\* block, and only adds recordings, keeping every row there is; a step of
\* the segmenter changes no stream and no recording
C27_DisjointWrites ==
    [][/\ managerVars' # managerVars =>
             UNCHANGED <<exists, enabled, configOk, recording, analysed,
                         speech_blocks>>
       /\ scanVars' # scanVars =>
             /\ UNCHANGED <<dbVars, analysed, speech_blocks>>
             /\ \A f \in Files :
                   /\ Len(recording'[f]) >= Len(recording[f])
                   /\ SubSeq(recording'[f], 1, Len(recording[f]))
                         = recording[f]
       /\ rebuildVars' # rebuildVars =>
             UNCHANGED <<dbVars, recording, analysed>>]_vars


\* the supervisor has recorded the unexpected exit of the process of a
\* station that is still enabled, next to an empty table of recordings and
\* of blocks
C27_Witness ==
    /\ \E s \in Stations :
          /\ exists[s] /\ enabled[s]
          /\ current_status[s] = "error"
          /\ last_error[s] = "exited"
    /\ \A f \in Files : recording[f] = <<>>
    /\ speech_blocks = <<>>


\* ===================================================================== C28
\* the url or the name is empty or missing
NoUrlOrName ==
    \/ stream_config.url \in {NoneValue, ""}
    \/ stream_config.name \in {NoneValue, ""}

\* the extra flags end inside a quotation
FlagsUnclosed ==
    /\ "flags" \in DOMAIN stream_config.optional_params
    /\ ShlexRead(ShlexStart, stream_config.optional_params["flags"]).quote
         # ""

\* C28 as stated: the builder fails with a validation error and no argument
\* list exactly when the url or the name is empty or missing, and gives an
\* argument list otherwise
C28_FailsIffNoUrlOrName ==
    built.status # "none" =>
        /\ NoUrlOrName <=> built.status = "ValueError"
        /\ built.status = "ValueError" => built.cmd = <<>>
        /\ built.status = "ok" => built.cmd # <<>>

\* C28 amended: the builder fails with ValueError and no argument list
\* exactly when the url or the name is empty or missing or the extra flags
\* cannot be tokenized (no closing quotation), and gives an argument list
\* otherwise
C28_FailsIffInvalid ==
    built.status # "none" =>
        /\ (NoUrlOrName \/ FlagsUnclosed) <=> built.status = "ValueError"
        /\ built.status = "ValueError" => built.cmd = <<>>
        /\ built.status = "ok" => built.cmd # <<>>

\* an empty name with a url and well-formed flags: the builder has failed
C28_Witness ==
    /\ stream_config.url = "http://radio"
    /\ stream_config.name = ""
    /\ ~FlagsUnclosed
    /\ built.status = "ValueError"


\* ===================================================================== C29
\* the argument that follows the first occurrence of a flag in the list
ArgAfter(cmd, flag) ==
    cmd[(CHOOSE i \in 1..Len(cmd) :
            cmd[i] = flag /\ \A j \in 1..i - 1 : cmd[j] # flag) + 1]

\* C29: the codec of a built invocation is the configured override if there
\* is one, else pcm_s16le when the format is wav or not given, else copy
C29_ResolvedCodec ==
    built.status = "ok" =>
        ArgAfter(built.cmd, "-c:a") =
            IF "codec" \in DOMAIN stream_config.optional_params
            THEN stream_config.optional_params["codec"]
            ELSE IF \/ "format" \notin DOMAIN stream_config.mandatory_params
                    \/ stream_config.mandatory_params["format"] = "wav"
                 THEN "pcm_s16le"
                 ELSE "copy"

\* no format and no codec configured: the invocation uses pcm_s16le
C29_Witness ==
    /\ built.status = "ok"
    /\ "format" \notin DOMAIN stream_config.mandatory_params
    /\ "codec" \notin DOMAIN stream_config.optional_params
    /\ ArgAfter(built.cmd, "-segment_format") = "wav"
    /\ ArgAfter(built.cmd, "-c:a") = "pcm_s16le"

\* ===================================================================== C30
\* a flag is among the arguments (none of the extra flags used here is
\* -ac or -ar)
HasArg(cmd, flag) == \E i \in 1..Len(cmd) : cmd[i] = flag

\* C30: -ac and -ar are among the arguments of a built invocation exactly
\* when its codec is not copy: present for format wav without an override,
\* absent with the override copy
C30_ChannelsAndRate ==
    built.status = "ok" =>
        /\ HasArg(built.cmd, "-ac")
              <=> ArgAfter(built.cmd, "-c:a") # "copy"
        /\ HasArg(built.cmd, "-ar")
              <=> ArgAfter(built.cmd, "-c:a") # "copy"
        /\ (/\ Get(stream_config.mandatory_params, "format", "wav") = "wav"
            /\ "codec" \notin DOMAIN stream_config.optional_params) =>
               /\ HasArg(built.cmd, "-ac")
               /\ HasArg(built.cmd, "-ar")
        /\ Get(stream_config.optional_params, "codec", "") = "copy" =>
               /\ ~HasArg(built.cmd, "-ac")
               /\ ~HasArg(built.cmd, "-ar")

\* format wav with the override copy: neither -ac nor -ar
C30_Witness ==
    /\ built.status = "ok"
    /\ Get(stream_config.mandatory_params, "format", "") = "wav"
    /\ Get(stream_config.optional_params, "codec", "") = "copy"
    /\ ~HasArg(built.cmd, "-ac")
    /\ ~HasArg(built.cmd, "-ar")
    /\ HasArg(built.cmd, "-segment_time")

\* ===================================================================== C31
\* the words a shell makes of each extra-flags string used here
WordsOf(chars) ==
    CASE chars = <<>> -> <<>>
      [] chars = <<"-", "v", "n", " ", "-", "s", "n">> -> <<"-vn", "-sn">>
      [] chars = <<"-", "a", "f", " ", "'", "a", " ", "b", "'">>
            -> <<"-af", "a b">>

\* the words of the configured extra flags, none when there are no flags
ExtraWords ==
    IF "flags" \in DOMAIN stream_config.optional_params
    THEN WordsOf(stream_config.optional_params["flags"])
    ELSE <<>>

\* a flag directly followed by a value, both before position last
PairBefore(cmd, flag, value, last) ==
    \E i \in 1..last - 1 : cmd[i] = flag /\ cmd[i + 1] = value

\* C31: a built invocation has -i <url>, -map 0:a, -f segment, -segment_time
\* with the configured duration or 3600, -strftime 1 and -reset_timestamps 1;
\* its last argument is /data/recordings/<name>/%Y/%m/%d/chunk_%Y%m%d%H%M%S.
\* followed by the format; and the words of the extra flags stand directly
\* before that last argument, after all of the standard arguments
C31_StandardThenFlagsThenOutput ==
    built.status = "ok" =>
        LET cmd == built.cmd
            n == Len(built.cmd)
            std == Len(built.cmd) - 1 - Len(ExtraWords)
        IN  /\ std >= 1
            /\ PairBefore(cmd, "-i", stream_config.url, std)
            /\ PairBefore(cmd, "-map", "0:a", std)
            /\ PairBefore(cmd, "-f", "segment", std)
            /\ PairBefore(cmd, "-segment_time",
                   IF "segment_time" \in DOMAIN stream_config.mandatory_params
                   THEN "600" ELSE "3600", std)
            /\ PairBefore(cmd, "-strftime", "1", std)
            /\ PairBefore(cmd, "-reset_timestamps", "1", std)
            /\ SubSeq(cmd, std + 1, n - 1) = ExtraWords
            /\ cmd[n] = "/data/recordings/" \o stream_config.name
                           \o "/%Y/%m/%d/chunk_%Y%m%d%H%M%S."
                           \o (IF "format" \in
                                     DOMAIN stream_config.mandatory_params
                               THEN stream_config.mandatory_params["format"]
                               ELSE "wav")

\* format mp3 and the flags -af 'a b': the invocation ends with -af, the
\* single word a b and the mp3 template
C31_Witness ==
    /\ built.status = "ok"
    /\ Len(built.cmd) >= 3
    /\ built.cmd[Len(built.cmd) - 2] = "-af"
    /\ built.cmd[Len(built.cmd) - 1] = "a b"
    /\ built.cmd[Len(built.cmd)]
         = "/data/recordings/radio1/%Y/%m/%d/chunk_%Y%m%d%H%M%S.mp3"

\* ===================================================================== C32
\* C32: the directory a segment is written to is one the supervisor has
\* made for that station and date, and the watcher parses the name of every
\* segment written to the time the name was formed from
C32_NamingContract ==
    /\ segment.path # <<>> => DirPart(segment.path) \in made
    /\ parsed.status # "none" =>
          /\ parsed.status = "ok"
          /\ parsed.ts = segment.at

\* ===================================================================== C33
\* C33: a step that makes a station tracked records a live process for it
\* and, when the row is still there, leaves it with status running, last_up
\* at the instant of that launch and no last_error; and at no time does a
\* row with status running show an error
C33_SpawnRecords ==
    /\ [][\A s \in Stations :
             (~Tracked(s) /\ processes'[s] # 0) =>
                 /\ procState'[processes'[s]] = "alive"
                 /\ procStation'[processes'[s]] = s
                 /\ exists[s] =>
                       /\ current_status'[s] = "running"
                       /\ last_up'[s] = processes'[s]
                       /\ last_error'[s] = "none"]_vars
    /\ [](\A s \in Stations :
             current_status[s] = "running" => last_error[s] = "none")

\* the pass in flight has launched a process for a station: the process is
\* tracked and alive, the row is running, without error, and its last_up is
\* the instant of this launch
C33_Witness ==
    \E s \in Stations :
        /\ passLog[s] = "spawned"
        /\ Tracked(s)
        /\ procState[processes[s]] = "alive"
        /\ exists[s] /\ current_status[s] = "running"
        /\ last_up[s] = processes[s]
        /\ last_error[s] = "none"

\* ===================================================================== C34
\* C34: the step of a pass that finds the process of an enabled station
\* exited sets the row's status to error with the message of the exit and
\* adds one error event, the first since that process was started, and
\* drops the handle, so that no later pass finds this exit again; no other
\* step adds an error event, so no exit has more than one
C34_ExitSurfacedOnce ==
    /\ [][\A s \in Stations :
             /\ (passLog[s] # "failure" /\ passLog'[s] = "failure") =>
                   /\ Tracked(s) /\ procState[processes[s]] = "exited"
                   /\ events[s] = 0 /\ events'[s] = 1
                   /\ processes'[s] = 0
                   /\ exists[s] =>
                         /\ current_status'[s] = "error"
                         /\ last_error'[s] = "exited"
             /\ events'[s] > events[s] =>
                   (passLog[s] # "failure" /\ passLog'[s] = "failure")]_vars
    /\ [](\A s \in Stations : events[s] <= 1)

\* a pass after the one that recorded the exit is in flight and has found
\* nothing to do for the other rows: the station whose process exited has
\* no handle, status error and still one error event
C34_Witness ==
    \E s \in Stations :
        /\ events[s] = 1
        /\ passLog[s] = "none"
        /\ \E l \in Loops : pc[l] = "iter"
        /\ ~Tracked(s)
        /\ exists[s] /\ current_status[s] = "error"
        /\ last_error[s] = "exited"

\* ===================================================================== C35
\* C35: a monitor loop whose pass raised goes back to sleep and from there
\* calls the next pass for as long as the manager is running; a watcher
\* loop whose scan raised goes back to sleep and from there starts the next
\* scan
C35_LoopsSurviveErrors ==
    /\ \A l \in Loops :
          /\ (pc[l] = "caught") ~> (pc[l] = "ready")
          /\ (pc[l] = "ready" /\ running)
                ~> (pc[l] \in {"iter", "waitLock", "caught"} \/ ~running)
    /\ \A w \in Watchers :
          /\ (wpc[w] = "caught") ~> (wpc[w] = "sleep")
          /\ (wpc[w] = "sleep") ~> (wpc[w] \in {"walk", "caught"})

\* the query of a pass has raised while the manager is running and tracks a
\* process that an earlier pass launched
C35_Witness ==
    /\ running
    /\ \E l \in Loops : pc[l] = "caught"
    /\ \E s \in Stations : Tracked(s) /\ current_status[s] = "running"

\* ===================================================================== C36
\* the row of table recording with a given id
RowOf(id) == analysed[CHOOSE i \in 1..Len(analysed) : analysed[i].id = id]

\* the effective end the claim describes
EffectiveEnd(rec) ==
    IF rec.end_ts # NoEnd THEN rec.end_ts
    ELSE IF rec.duration_seconds > 0
         THEN rec.start_ts + rec.duration_seconds
         ELSE rec.start_ts

\* every recording in ids has no end and duration 0
AllUnprobed(ids) ==
    \A k \in 1..Len(ids) :
        /\ RowOf(ids[k]).end_ts = NoEnd
        /\ RowOf(ids[k]).duration_seconds = 0

\* every block returned starts at the start of its first member and ends at
\* the latest effective end of its members
EndsAtLatestEffectiveEnd(c) ==
    \A i \in 1..Len(Returned(c)) :
        LET b == Returned(c)[i]
        IN  /\ b.start_ts = RowOf(b.chunk_ids[1]).start_ts
            /\ \A k \in 1..Len(b.chunk_ids) :
                   EffectiveEnd(RowOf(b.chunk_ids[k])) <= b.end_ts
            /\ \E k \in 1..Len(b.chunk_ids) :
                   EffectiveEnd(RowOf(b.chunk_ids[k])) = b.end_ts

\* C36 as stated: the effective end is the explicit end, else start +
\* duration when the duration is positive, else the start; and a block made
\* only of recordings without end and with duration 0 has duration 0 while
\* it is open and is not among the blocks returned
C36_UnprobedBlockHasNoDuration ==
    \A c \in Callers :
        rpc[c] = "done" =>
            /\ EndsAtLatestEffectiveEnd(c)
            /\ \A i \in 1..Len(analysed) :
                  LET acc == After(analysed, i, rstation[c])
                  IN  (acc.ids # <<>> /\ AllUnprobed(acc.ids)) =>
                          acc.block_end - acc.block_start = 0
            /\ \A i \in 1..Len(Returned(c)) :
                  ~AllUnprobed(Returned(c)[i].chunk_ids)

\* C36 amended: the effective end is as stated; a block made only of
\* recordings without end and with duration 0 lasts from the start of its
\* first member to the start of its last, which is 0 for a single member,
\* and is returned exactly when that span reaches min_duration
C36_UnprobedBlockSpansStarts ==
    \A c \in Callers :
        rpc[c] = "done" =>
            /\ EndsAtLatestEffectiveEnd(c)
            /\ \A i \in 1..Len(analysed) :
                  LET acc == After(analysed, i, rstation[c])
                  IN  (acc.ids # <<>> /\ AllUnprobed(acc.ids)) =>
                        /\ acc.block_end - acc.block_start =
                              RowOf(acc.ids[Len(acc.ids)]).start_ts
                                 - RowOf(acc.ids[1]).start_ts
                        /\ Len(acc.ids) = 1 =>
                              acc.block_end - acc.block_start = 0
            /\ \A i \in 1..Len(Returned(c)) :
                  LET ids == Returned(c)[i].chunk_ids
                  IN  AllUnprobed(ids) =>
                        /\ Len(ids) > 1
                        /\ Returned(c)[i].duration_seconds =
                              RowOf(ids[Len(ids)]).start_ts
                                 - RowOf(ids[1]).start_ts
                        /\ Returned(c)[i].duration_seconds >= min_duration
            /\ (/\ OneRun(analysed) /\ AllUnprobed([i \in 1..Len(analysed)
                                                       |-> analysed[i].id])
                 /\ analysed[Len(analysed)].start_ts - analysed[1].start_ts
                       >= min_duration) =>
                    Len(Returned(c)) = 1

\* with min_duration 1, two speech recordings without end and with duration
\* 0 that start one second apart are returned as one block of one second
C36_Witness ==
    /\ rpc["r1"] = "done"
    /\ min_duration = 1
    /\ Len(analysed) = 2
    /\ AllUnprobed(<<analysed[1].id, analysed[2].id>>)
    /\ Len(Returned("r1")) = 1
    /\ Returned("r1")[1].duration_seconds = 1
    /\ Len(Returned("r1")[1].chunk_ids) = 2

\* ===================================================================== C37
\* C37: in every block a rebuild has produced the sequence of member ids is
\* not empty, every member is a recording classified as speech of the
\* station asked for that starts within the day asked for, the members
\* stand in order of their starts, and no id is a member twice, in one
\* block or in two
C37_MembersOfBlocks ==
    \A c \in Callers :
        rpc[c] \in {"computed", "committed", "done"} =>
            /\ \A i \in 1..Len(rpending[c]) :
                  LET ids == rpending[c][i].chunk_ids
                  IN  /\ ids # <<>>
                      /\ \A k \in 1..Len(ids) :
                            /\ \E j \in 1..Len(analysed) :
                                   analysed[j].id = ids[k]
                            /\ RowOf(ids[k]).classification = "speech"
                            /\ RowOf(ids[k]).stream_id = rstation[c]
                            /\ RowOf(ids[k]).start_ts >= rday[c] * DayLength
                            /\ RowOf(ids[k]).start_ts
                                  < (rday[c] + 1) * DayLength
                      /\ \A k \in 1..Len(ids) - 1 :
                            RowOf(ids[k]).start_ts
                               <= RowOf(ids[k + 1]).start_ts
                      /\ \A k, m \in 1..Len(ids) : ids[k] = ids[m] => k = m
            /\ \A i, j \in 1..Len(rpending[c]) :
                  i # j =>
                     \A k \in 1..Len(rpending[c][i].chunk_ids) :
                        \A m \in 1..Len(rpending[c][j].chunk_ids) :
                           rpending[c][i].chunk_ids[k]
                              # rpending[c][j].chunk_ids[m]

\* a rebuild has returned two blocks of one recording each
C37_Witness ==
    /\ rpc["r1"] = "done"
    /\ Len(rpending["r1"]) = 2
    /\ Len(rpending["r1"][1].chunk_ids) = 1
    /\ Len(rpending["r1"][2].chunk_ids) = 1
    /\ rpending["r1"][1].chunk_ids # rpending["r1"][2].chunk_ids

\* ===================================================================== C38
\* the stored blocks that are not blocks of station s starting within day d
BlocksOutside(tbl, s, d) ==
    SelectSeq(tbl, LAMBDA b : \/ b.stream_id # s
                              \/ b.start_ts < d * DayLength
                              \/ b.start_ts >= (d + 1) * DayLength)

\* C38: no step of a rebuild for (station, date) deletes, inserts or changes
\* a stored block of another station, or a block of that station whose start
\* is not within that date
C38_OtherBlocksUntouched ==
    [][\A c \in Callers :
          rpc'[c] # rpc[c] =>
             BlocksOutside(speech_blocks', rstation[c], rday[c])
                = BlocksOutside(speech_blocks, rstation[c], rday[c])]_vars

\* a rebuild of (1, day 0) has replaced the block stored for it by new ones
\* and the block of the other station and day is still there
C38_Witness ==
    /\ rpc["r1"] = "committed"
    /\ rstation["r1"] = 1
    /\ rday["r1"] = 0
    /\ rbefore["r1"] # <<>>
    /\ rpending["r1"] # <<>>
    /\ Len(speech_blocks) = Len(rpending["r1"]) + 1
    /\ \E i \in 1..Len(speech_blocks) :
          speech_blocks[i] = StaleBlock(NumStations, 1)

\* ===================================================================== C39
\* C39: no launched process runs without an entry in self.processes: an
\* entry leaves the table only once its process has exited or been killed
C39_NoneRunsUntracked ==
    \A p \in Procs :
        procState[p] = "alive" => \E s \in Stations : processes[s] = p

\* ===================================================================== C40
\* C40: while a pass that read a station as enabled holds the lock, no step
\* removes or replaces the entry of that station's running process, signals
\* the process or kills it, whether or not the station's row still validates
C40_LiveProcessKept ==
    [][\A s \in Stations :
          (/\ lockHolder \in Loops
           /\ snap[s] = "en"
           /\ Tracked(s)
           /\ procState[processes[s]] = "alive") =>
             /\ processes'[s] = processes[s]
             /\ sigterm'[processes[s]] = sigterm[processes[s]]
             /\ procState'[processes[s]] \in {"alive", "exited"}]_vars

\* a pass has just gone past station 1, enabled, whose process it keeps
\* although the row was rewritten after the launch and no longer validates
C40_Witness ==
    /\ pc["L1"] = "iter"
    /\ idx = 2
    /\ passLog[1] = "keep"
    /\ enabled[1]
    /\ ~configOk[1]
    /\ Tracked(1)
    /\ procState[processes[1]] = "alive"
    /\ sigterm[processes[1]] = "none"

====
